---- MODULE Spec2Model ----
(***************************************************************************)
(* Model of the Uber Eats group-order engine (utils/uberEats.js) and of    *)
(* the controller that drives it (scrapeUberEatsGroupOrderLink).           *)
(*                                                                         *)
(* Conventions.                                                            *)
(*  - Time is counted in minutes.                                          *)
(*  - Money is counted in units of 1e-5 dollar (the provider's amountE5),  *)
(*    so 18.00 dollars is 1800000.                                         *)
(*  - A JavaScript null/undefined string is None; "" is the empty string.  *)
(*  - An await is a step boundary: the code between two awaits is one      *)
(*    action, because JavaScript runs it without interleaving.             *)
(***************************************************************************)
EXTENDS Integers, Sequences, FiniteSets, TLC

\* ------------------------------------------------------------------ bounds
NumProcs == 2
MaxNow == 2

\* --------------------------------------------------------- program constants
FiveMinutes == 5
TwentyHours == 1200
HttpOk == 200

None == "none"
NoTime == 0 - 1
Procs == 1 .. NumProcs

VARIABLES
  UBER_SID,                 \* let UBER_SID
  SID_EXPIRY_TIME,          \* let SID_EXPIRY_TIME (NoTime is null)
  SID_REFRESH_IN_PROGRESS,  \* let SID_REFRESH_IN_PROGRESS
  sidFile,                  \* uber_sid.json: [present, sid, expiryTime]
  now,                      \* the wall clock
  pc,                       \* [Procs -> position of the process]
  ens,                      \* [Procs -> the running ensureValidSid call]
  run,                      \* [Procs -> locals of the running getOrderDetails]
  ctl,                      \* [Procs -> locals of the running controller]
  net,                      \* [Procs -> requests of the current top-level call]
  orders                    \* the Order collection

credVars == <<UBER_SID, SID_EXPIRY_TIME, SID_REFRESH_IN_PROGRESS, sidFile>>
vars == <<UBER_SID, SID_EXPIRY_TIME, SID_REFRESH_IN_PROGRESS, sidFile, now,
          pc, ens, run, ctl, net, orders>>

\* ------------------------------------------------------------ HTTP outcomes
\* What one request can end in: a response with a status and a body, a
\* timeout, or a network error.
Resp(status, body) == [kind |-> "resp", status |-> status, body |-> body]
Timeout == [kind |-> "timeout", status |-> 0, body |-> None]
NetErr == [kind |-> "neterr", status |-> 0, body |-> None]

\* axios' default validateStatus: the promise resolves for 2xx only.
AxiosResolvesMut(o) == o.kind = "resp"
AxiosResolves(o) == o.kind = "resp" /\ o.status >= 200 /\ o.status < 300

\* The message of the error axios rejects with.
AxiosErrorMessage(o) ==
  IF o.kind = "timeout" THEN [text |-> "timeout exceeded", status |-> 0]
  ELSE IF o.kind = "neterr" THEN [text |-> "Network Error", status |-> 0]
  ELSE [text |-> "Request failed with status code ", status |-> o.status]

\* const x = v; F(x): the value is computed once and then used.
Bind(v, F(_)) == CHOOSE y \in {F(x) : x \in {v}} : TRUE

\* ------------------------------------------------------------------ strings
\* A string the code searches is a sequence of one-character strings.
UpperCase == <<"A","B","C","D","E","F","G","H","I","J","K","L","M",
               "N","O","P","Q","R","S","T","U","V","W","X","Y","Z">>
LowerCase == <<"a","b","c","d","e","f","g","h","i","j","k","l","m",
               "n","o","p","q","r","s","t","u","v","w","x","y","z">>
LowerChar(c) ==
  IF \E i \in 1 .. Len(UpperCase) : UpperCase[i] = c
  THEN LowerCase[CHOOSE i \in 1 .. Len(UpperCase) : UpperCase[i] = c]
  ELSE c
\* String.prototype.toLowerCase
toLowerCase(s) == [i \in 1 .. Len(s) |-> LowerChar(s[i])]
\* String.prototype.includes
includes(s, kw) ==
  \E i \in 0 .. (Len(s) - Len(kw)) : SubSeq(s, i + 1, i + Len(kw)) = kw
\* keywords.some(keyword => title.includes(keyword))
someIncluded(s, kws) == \E kw \in kws : includes(s, kw)

\* ------------------------------------------------------- fee reconciler
\* The keyword lists of extractSubtotalAndFeesFromCheckoutPayloads.
BenefitKw ==
  {<<"u", "b", "e", "r", " ", "o", "n", "e">>,
   <<"m", "e", "m", "b", "e", "r", "s", "h", "i", "p">>,
   <<"b", "e", "n", "e", "f", "i", "t">>,
   <<"d", "i", "s", "c", "o", "u", "n", "t">>}
SubtotalKw ==
  {<<"s", "u", "b", "t", "o", "t", "a", "l">>}
TaxKw ==
  {<<"t", "a", "x">>,
   <<"t", "a", "x", "e", "s">>}
DeliveryKw ==
  {<<"d", "e", "l", "i", "v", "e", "r", "y">>,
   <<"d", "e", "l", "i", "v", "e", "r", "y", " ", "f", "e", "e">>}
ServiceKw ==
  {<<"s", "e", "r", "v", "i", "c", "e">>,
   <<"f", "e", "e", "s">>,
   <<"s", "e", "r", "v", "i", "c", "e", " ", "f", "e", "e">>}
TipKw ==
  {<<"t", "i", "p">>,
   <<"g", "r", "a", "t", "u", "i", "t", "y">>}
SmallOrderKw ==
  {<<"s", "m", "a", "l", "l", " ", "o", "r", "d", "e", "r">>,
   <<"s", "m", "a", "l", "l", " ", "o", "r", "d", "e", "r", " ", "f", "e", "e">>}
AdjustmentKw ==
  {<<"a", "d", "j", "u", "s", "t", "m", "e", "n", "t", "s">>,
   <<"a", "d", "j", "u", "s", "t", "m", "e", "n", "t">>}
PickupKw ==
  {<<"p", "i", "c", "k", "u", "p">>,
   <<"p", "i", "c", "k", "u", "p", " ", "f", "e", "e">>}
OtherFeeKw ==
  {<<"f", "e", "e">>,
   <<"c", "h", "a", "r", "g", "e">>,
   <<"c", "o", "s", "t">>,
   <<"s", "u", "r", "c", "h", "a", "r", "g", "e">>,
   <<"a", "d", "d", "i", "t", "i", "o", "n", "a", "l">>,
   <<"p", "l", "a", "t", "f", "o", "r", "m">>,
   <<"p", "r", "o", "c", "e", "s", "s", "i", "n", "g">>,
   <<"c", "o", "n", "v", "e", "n", "i", "e", "n", "c", "e">>,
   <<"b", "o", "o", "k", "i", "n", "g">>,
   <<"o", "r", "d", "e", "r">>,
   <<"h", "a", "n", "d", "l", "i", "n", "g">>}

\* Titles of the charges the model feeds the reconciler.
T_Subtotal ==
  <<"S", "u", "b", "t", "o", "t", "a", "l">>
T_DeliveryFee ==
  <<"D", "e", "l", "i", "v", "e", "r", "y", " ", "F", "e", "e">>
T_Tax ==
  <<"T", "a", "x">>
T_UberOne ==
  <<"U", "b", "e", "r", " ", "O", "n", "e", " ", "d", "i", "s", "c", "o", "u", "n", "t">>
T_Random ==
  <<"R", "a", "n", "d", "o", "m", " ", "A", "d", "j", "u", "s", "t", "m", "e", "n", "t">>
T_Misc ==
  <<"M", "i", "s", "c">>

\* An amountE5 field: absent, a plain integer, or a 64-bit object {low, high}.
NoE5 == [shape |-> "none", low |-> 0]
E5Int(v) == [shape |-> "int", low |-> v]
E5Long(v) == [shape |-> "long", low |-> v]
\* JavaScript truthiness of such a field.
Truthy(a) == a.shape = "long" \/ (a.shape = "int" /\ a.low # 0)

\* A number the code computes: finite with a value, or NaN.
Fin(v) == [finite |-> TRUE, v |-> v]
NaN == [finite |-> FALSE, v |-> 0]

\* safeAmountE5ToDollars
safeAmountE5ToDollars(amountE5) ==
  IF ~Truthy(amountE5) THEN 0 ELSE amountE5.low

\* Number(x.toFixed(2)): the nearest whole cent (1 cent is 1000 units).
toFixed2(x) ==
  IF x >= 0 THEN ((x + 500) \div 1000) * 1000
  ELSE 0 - (((0 - x) + 500) \div 1000) * 1000

\* A charge of the fare breakdown, as far as the reconciler reads it:
\*   title    [shape: "object" | "string" | "none", text]  (c.title, c.title.text)
\*   name     a string or <<>>                               (c.name)
\*   type     the upper-cased chargeType / type, or ""
\*   analytics  fareBreakdownChargeMetadata.analyticsInfo[0].currencyAmount.amountE5
\*   currencyCode  ...analyticsInfo[0].currencyAmount.currencyCode, or None
\*   amountE5 c.amountE5
\*   amount   [isNum, v]                                     (c.amount)
Charge(title, name, type, analytics, cur, amountE5, amount) ==
  [title |-> title, name |-> name, type |-> type, analytics |-> analytics,
   currencyCode |-> cur, amountE5 |-> amountE5, amount |-> amount]
TitleObj(s) == [shape |-> "object", text |-> s]
TitleStr(s) == [shape |-> "string", text |-> s]
NoTitle == [shape |-> "none", text |-> <<>>]
Num(v) == [isNum |-> TRUE, v |-> v]
NoNum == [isNum |-> FALSE, v |-> 0]

\* getTitle: c.title.text || c.name || '' in lower case; a title that is a
\* plain string has no .text.
getTitle(c) ==
  LET t == IF c.title.shape = "object" /\ c.title.text # <<>> THEN c.title.text
           ELSE c.name
  IN toLowerCase(t)

\* getAmount
getAmount(c) ==
  IF Truthy(c.analytics)
  THEN (IF c.analytics.shape = "long" THEN Fin(c.analytics.low) ELSE NaN)
  ELSE IF Truthy(c.amountE5) THEN Fin(safeAmountE5ToDollars(c.amountE5))
  ELSE IF c.amount.isNum THEN Fin(c.amount.v)
  ELSE Fin(0)

ZeroBreakdown ==
  [subtotal |-> 0, taxes |-> 0, deliveryFee |-> 0, serviceFee |-> 0, tip |-> 0,
   smallOrderFee |-> 0, adjustmentsFee |-> 0, pickupFee |-> 0, otherFees |-> 0,
   hasUberOne |-> FALSE, uberOneBenefit |-> 0, total |-> 0, currencyCode |-> None]

\* The category a non-negative charge is counted in.
classify(title, type, amt) ==
  IF someIncluded(title, SubtotalKw) THEN "subtotal"
  ELSE IF someIncluded(title, TaxKw) THEN "taxes"
  ELSE IF someIncluded(title, DeliveryKw) \/ type = "DELIVERY_FEE" THEN "deliveryFee"
  ELSE IF someIncluded(title, ServiceKw) \/ type = "SERVICE_FEE" THEN "serviceFee"
  ELSE IF someIncluded(title, TipKw) \/ type = "TIP" THEN "tip"
  ELSE IF someIncluded(title, SmallOrderKw) \/ type = "SMALL_ORDER_FEE"
       THEN "smallOrderFee"
  ELSE IF someIncluded(title, AdjustmentKw) \/ type = "ADJUSTMENT"
       THEN "adjustmentsFee"
  ELSE IF someIncluded(title, PickupKw) \/ type = "PICKUP_FEE" THEN "pickupFee"
  ELSE IF someIncluded(title, OtherFeeKw) THEN "otherFees"
  ELSE IF amt > 0 THEN "otherFees"
  ELSE "nothing"

\* One turn of the charge loop.
chargeStep(b, c) ==
  Bind(getTitle(c), LAMBDA title :
    LET a == getAmount(c)
        b1 == IF b.currencyCode = None
              THEN [b EXCEPT !.currencyCode = c.currencyCode] ELSE b
    IN IF ~a.finite THEN b1
       ELSE IF a.v < 0 /\ someIncluded(title, BenefitKw)
       THEN [b1 EXCEPT !.hasUberOne = TRUE, !.uberOneBenefit = @ + (0 - a.v)]
       ELSE IF a.v < 0 THEN b1
       ELSE Bind(classify(title, c.type, a.v), LAMBDA cat :
              IF cat = "subtotal" THEN [b1 EXCEPT !.subtotal = a.v]
              ELSE IF cat = "nothing" THEN b1
              ELSE [b1 EXCEPT ![cat] = @ + a.v]))

RECURSIVE chargeLoop(_, _, _)
chargeLoop(charges, i, b) ==
  IF i > Len(charges) THEN b
  ELSE Bind(chargeStep(b, charges[i]),
            LAMBDA next : chargeLoop(charges, i + 1, next))

feeSum(b) ==
  b.deliveryFee + b.serviceFee + b.tip + b.smallOrderFee + b.adjustmentsFee
    + b.pickupFee + b.otherFees

\* The total of the payload: the analytics-info field first, else the plain
\* field.  total is [analytics, hasPlain, plain, currencyCode].
payloadTotalMut(b, total) ==
  [b EXCEPT !.total = IF total.hasPlain THEN safeAmountE5ToDollars(total.plain)
                      ELSE safeAmountE5ToDollars(total.analytics)]
payloadTotal(b, total) ==
  LET t1 == IF Truthy(total.analytics)
            THEN safeAmountE5ToDollars(total.analytics) ELSE 0
      cur == IF Truthy(total.analytics) /\ b.currencyCode = None
             THEN total.currencyCode ELSE b.currencyCode
      t2 == IF t1 = 0 /\ total.hasPlain
            THEN safeAmountE5ToDollars(total.plain) ELSE t1
  IN [b EXCEPT !.total = t2, !.currencyCode = cur]

\* The estimate of the loyalty benefit: 9.5% of the subtotal.
benefitFallback(b) ==
  IF b.uberOneBenefit = 0 /\ b.subtotal > 0
  THEN [b EXCEPT !.uberOneBenefit = ((b.subtotal * 95 + 500000) \div 1000000) * 1000]
  ELSE b

\* Fallback 1: other fees from total - subtotal - taxes.
feeFallback1Mut(b) == b
feeFallback1(b) ==
  IF feeSum(b) = 0 /\ b.total > 0 /\ b.subtotal > 0
       /\ b.total - b.subtotal - b.taxes > 0
  THEN [b EXCEPT !.otherFees = b.total - b.subtotal - b.taxes]
  ELSE b

\* Fallback 2: the flat estimate.
feeFallback2(b) ==
  IF feeSum(b) = 0 /\ b.subtotal > 0
  THEN [b EXCEPT !.deliveryFee = 399000,
                 !.serviceFee = ((b.subtotal * 12 + 50000) \div 100000) * 1000,
                 !.smallOrderFee = IF b.subtotal < 1000000 THEN 200000 ELSE 0]
  ELSE b

\* The fees of the return value.
finalFeesMut(b) == feeSum(b)
finalFees(b) ==
  LET fees == toFixed2(feeSum(b))
      derived == toFixed2(b.total - b.subtotal - b.taxes)
  IN IF fees = 0 /\ b.total # 0 /\ b.subtotal # 0 /\ derived > 0
     THEN derived ELSE fees

\* The breakdown when the charge loop ends, before the total is read and the
\* fallbacks run.
classified(payloads) ==
  chargeLoop(IF Len(payloads.charges) > 0 THEN payloads.charges
             ELSE payloads.altCharges, 1, ZeroBreakdown)

\* extractSubtotalAndFeesFromCheckoutPayloads.  payloads is
\* [charges, altCharges, total, ...].
extractSubtotalAndFeesFromCheckoutPayloads(payloads) ==
  Bind(classified(payloads), LAMBDA b1 :
     Bind(payloadTotal(b1, payloads.total), LAMBDA b2 :
     Bind(benefitFallback(b2), LAMBDA b3 :
     Bind(feeFallback1(b3), LAMBDA b4 :
     Bind(feeFallback2(b4), LAMBDA b5 :
       [subtotal |-> b5.subtotal, taxes |-> b5.taxes, fees |-> finalFees(b5),
        deliveryFee |-> b5.deliveryFee, serviceFee |-> b5.serviceFee,
        tip |-> b5.tip, smallOrderFee |-> b5.smallOrderFee,
        adjustmentsFee |-> b5.adjustmentsFee, pickupFee |-> b5.pickupFee,
        otherFees |-> b5.otherFees, hasUberOne |-> b5.hasUberOne,
        uberOneBenefit |-> b5.uberOneBenefit, total |-> b5.total,
        currencyCode |-> b5.currencyCode])))))

\* ---------------------------------------------------------- credential store
Sids == {"sidA", "sidB"}
NoFile == [present |-> FALSE, sid |-> "", expiryTime |-> NoTime]

\* loadSidFromFile: the credential after module load, from the file or from
\* the environment variable.
loadSidFromFile(file, env) ==
  IF file.present
  THEN [sid |-> file.sid, exp |-> file.expiryTime]
  ELSE [sid |-> env, exp |-> NoTime]

\* saveSidToFile: the file after the write; a failing write is swallowed.
saveSidToFileMut(file, sid, expiryTime, writeOk) ==
  IF writeOk
  THEN [present |-> TRUE, sid |-> sid, expiryTime |-> NoTime]
  ELSE file
saveSidToFile(file, sid, expiryTime, writeOk) ==
  IF writeOk
  THEN [present |-> TRUE, sid |-> sid, expiryTime |-> expiryTime]
  ELSE file

\* isSidExpired
isSidExpiredMut(exp, t) == exp # NoTime /\ exp - t < 0
isSidExpired(exp, t) ==
  IF exp = NoTime THEN FALSE ELSE exp - t < FiveMinutes

\* updateSid, as the credential [sid, exp, file] it leaves.
updateSid(file, newSid, t, writeOk) ==
  [sid |-> newSid,
   exp |-> t + TwentyHours,
   file |-> saveSidToFile(file, newSid, t + TwentyHours, writeOk)]

\* The session cookie the login page sets, if any (sid=([^;]+)).
LoginBodies == Sids \cup {None}
LoginOutcomes ==
  {Resp(HttpOk, c) : c \in LoginBodies} \cup {Resp(503, None), Timeout, NetErr}

\* ensureValidSid's first test, if (!UBER_SID): a token is set.
HasSidMut(sid) == TRUE
HasSid(sid) == sid # ""

\* The login page answered and one of its set-cookie lines matched sid=.
CookieMatchedMut(o) == AxiosResolves(o)
CookieMatched(o) == AxiosResolves(o) /\ o.body # None
\* The refresh attempt failed: the request failed or no cookie matched.
RefreshFails(o) == ~AxiosResolves(o) \/ o.body = None

\* autoRefreshSid's finally: the flag when the attempt ends, whatever the
\* login page answered.
FlagAfterRefreshMut(o) == RefreshFails(o)
FlagAfterRefresh(o) == FALSE

\* autoRefreshSid's guard: a refresh starts only when none is in progress.
RefreshMayStartMut(inProgress) == TRUE
RefreshMayStart(inProgress) == ~inProgress

\* One call of ensureValidSid: where it returns to, whether it found a refresh
\* in progress, the login requests it sent, whether its refresh failed and
\* the token held when it did, and the token it returns.
NoEns ==
  [retTo |-> "top", skipped |-> FALSE, logins |-> 0, failed |-> FALSE,
   held |-> None, ret |-> None]
\* The requests of one caller: all it issued, in order, and those whose
\* answer is awaited.
NoNet == [sent |-> <<>>, inflight |-> <<>>]

\* A request is issued.
Send(n, req) ==
  [sent |-> Append(n.sent, req), inflight |-> Append(n.inflight, req)]
\* await: the caller resumes with the answer to the request.
RecvMut(n, req) == n
Recv(n, req) ==
  [sent |-> n.sent,
   inflight |-> SelectSeq(n.inflight, LAMBDA other : other # req)]

\* ensureValidSid up to its first await (or to its return).
ensureValidSid(p) ==
  /\ pc[p] = "ensure"
  /\ IF ~HasSid(UBER_SID)
     THEN /\ pc' = [pc EXCEPT ![p] = "ensured"]
          /\ ens' = [ens EXCEPT ![p].ret = UBER_SID]
          /\ UNCHANGED <<SID_REFRESH_IN_PROGRESS, net>>
     ELSE IF isSidExpired(SID_EXPIRY_TIME, now)
     THEN \* await autoRefreshSid()
          IF RefreshMayStart(SID_REFRESH_IN_PROGRESS)
          THEN /\ SID_REFRESH_IN_PROGRESS' = TRUE
               /\ net' = [net EXCEPT ![p] = Send(@, "login")]
               /\ ens' = [ens EXCEPT ![p].logins = @ + 1]
               /\ pc' = [pc EXCEPT ![p] = "refreshing"]
          ELSE /\ ens' = [ens EXCEPT ![p].skipped = TRUE]
               /\ pc' = [pc EXCEPT ![p] = "ensureResume"]
               /\ UNCHANGED <<SID_REFRESH_IN_PROGRESS, net>>
     ELSE /\ pc' = [pc EXCEPT ![p] = "ensured"]
          /\ ens' = [ens EXCEPT ![p].ret = UBER_SID]
          /\ UNCHANGED <<SID_REFRESH_IN_PROGRESS, net>>
  /\ UNCHANGED <<UBER_SID, SID_EXPIRY_TIME, sidFile, now, run, ctl, orders>>

\* autoRefreshSid from the login page's answer to its return.
autoRefreshSid(p) ==
  /\ pc[p] = "refreshing"
  /\ \E o \in LoginOutcomes, w1 \in BOOLEAN, w2 \in BOOLEAN :
       /\ IF CookieMatched(o)
          THEN LET c == updateSid(sidFile, o.body, now, w1)
                   e == now + TwentyHours
               IN /\ UBER_SID' = c.sid
                  /\ SID_EXPIRY_TIME' = e
                  /\ sidFile' = saveSidToFile(c.file, o.body, e, w2)
          ELSE /\ w1 /\ w2
               /\ UNCHANGED <<UBER_SID, SID_EXPIRY_TIME, sidFile>>
       /\ ens' = [ens EXCEPT ![p].failed = RefreshFails(o),
                             ![p].held = IF RefreshFails(o) THEN UBER_SID ELSE @]
       /\ SID_REFRESH_IN_PROGRESS' = FlagAfterRefresh(o)
  /\ net' = [net EXCEPT ![p] = Recv(@, "login")]
  /\ pc' = [pc EXCEPT ![p] = "ensureResume"]
  /\ UNCHANGED <<now, run, ctl, orders>>

\* ensureValidSid after its await: return UBER_SID.
ensureResume(p) ==
  /\ pc[p] = "ensureResume"
  /\ ens' = [ens EXCEPT ![p].ret = UBER_SID]
  /\ pc' = [pc EXCEPT ![p] = "ensured"]
  /\ UNCHANGED <<credVars, now, run, ctl, net, orders>>

\* ------------------------------------------------ direct calls of the store
\* A caller of the exported ensureValidSid.
CallEnsureValidSid(p) ==
  /\ pc[p] = "idle"
  /\ pc' = [pc EXCEPT ![p] = "ensure"]
  /\ UNCHANGED <<credVars, now, ens, run, ctl, net, orders>>

\* The exported ensureValidSid hands its token to that caller.
EnsureReturnTop(p) ==
  /\ pc[p] = "ensured"
  /\ ens[p].retTo = "top"
  /\ pc' = [pc EXCEPT ![p] = "idle"]
  /\ ens' = [ens EXCEPT ![p] = NoEns]
  /\ net' = [net EXCEPT ![p] = NoNet]
  /\ UNCHANGED <<credVars, now, run, ctl, orders>>

\* A caller of the exported updateSid.
CallUpdateSid(p) ==
  /\ pc[p] = "idle"
  /\ \E s \in Sids, w \in BOOLEAN :
       LET c == updateSid(sidFile, s, now, w)
       IN /\ UBER_SID' = c.sid
          /\ SID_EXPIRY_TIME' = c.exp
          /\ sidFile' = c.file
  /\ UNCHANGED <<SID_REFRESH_IN_PROGRESS, now, pc, ens, run, ctl, net, orders>>

Tick ==
  /\ now < MaxNow
  /\ now' = now + 1
  /\ UNCHANGED <<credVars, pc, ens, run, ctl, net, orders>>

\* ------------------------------------------------------------- order link
\* A link, as far as extractGroupUuid and the controller read it:
\*   present  a non-empty string was given
\*   path     the segment after /group-orders/ ([\w-]+), or None
\*   query    the value of groupOrderUuid= ([a-f0-9-]+), or None
Link(path, query) == [present |-> TRUE, path |-> path, query |-> query]
NoLink == [present |-> FALSE, path |-> None, query |-> None]
Placeholder == "your-group-order-id"
Links ==
  {NoLink, Link(None, None), Link("uuid-p", None), Link(None, "uuid-q"),
   Link(Placeholder, None)}

\* extractGroupUuid
extractGroupUuidMut(link) ==
  IF link.path # None THEN link.path ELSE IF link.query # None THEN link.query
  ELSE "uuid-default"
extractGroupUuid(link) ==
  IF ~link.present THEN None
  ELSE IF link.path # None THEN link.path
  ELSE IF link.query # None THEN link.query
  ELSE None

\* ------------------------------------------------------- response bodies
\* The join response, as far as the pipeline reads it:
\*   { data: { storeUuid, deliveryAddress: { latitude, longitude,
\*             address: { address1, address2 } },
\*             userProfile: { phoneNumber } } }
\* An entry of a list the provider sends is an object: its key/value pairs in
\* the order the response gives them.
RomaIdFirst == <<<<"id", "r1">>, <<"name", "Roma">>>>
RomaNameFirst == <<<<"name", "Roma">>, <<"id", "r1">>>>
Wok == <<<<"id", "r2">>, <<"name", "Wok">>>>
Sushi == <<<<"id", "r3">>, <<"name", "Sushi">>>>
\* Where a response carries a list of favorite restaurants:
\*   plain    under a key favoriteRestaurants reached through objects only
\*   nested   under such a key inside an element of an array
\*   payload  at checkoutPayloads.favorites
\* The bodies of the universe carry a list in at most one of the places.
\* depth is the number of objects between the root of the response and the
\* object that holds the key: 1 for { data: { favoriteRestaurants } }.
DepthCap == 10
DeepLevel == DepthCap + 2
NoFav == [plain |-> <<>>, nested |-> <<>>, payload |-> <<>>, depth |-> 1]

JoinBody(hasData, store, coords, addr, phone) ==
  [hasData |-> hasData, storeUuid |-> store, coords |-> coords, addr |-> addr,
   profilePhone |-> phone, fav |-> NoFav]
EmptyJoinBody == JoinBody(FALSE, None, FALSE, <<>>, None)
FullJoinBody ==
  JoinBody(TRUE, "store-J", TRUE, <<<<"12", "Main", "St">>, <<"Floor", "2">>>>,
           "222")
FavJoinBodies ==
  {[JoinBody(TRUE, None, TRUE, <<>>, None) EXCEPT !.fav = f] :
     f \in {[NoFav EXCEPT !.plain = <<RomaIdFirst>>],
            [NoFav EXCEPT !.plain = <<RomaNameFirst>>],
            [NoFav EXCEPT !.nested = <<Wok>>],
            [NoFav EXCEPT !.plain = <<Wok>>, !.depth = DeepLevel]}}
JoinBodies ==
  {EmptyJoinBody, FullJoinBody, JoinBody(TRUE, None, TRUE, <<>>, None)} \cup
  {JoinBody(TRUE, s, FALSE, <<>>, ph) :
     s \in {None, "store-J"}, ph \in {None, "222"}} \cup
  FavJoinBodies

\* A quantity the code computes: the decimal n / 10^d with the fewest places
\* (d = 0 is a whole number).
Dec(n, d) == [n |-> n, d |-> d]
RECURSIVE Pow10(_)
Pow10(e) == IF e = 0 THEN 1 ELSE 10 * Pow10(e - 1)
\* The value of n / 10^d.
RECURSIVE Quotient(_, _)
Quotient(n, d) ==
  IF d > 0 /\ n % 10 = 0 THEN Quotient(n \div 10, d - 1) ELSE Dec(n, d)

\* The quantity field of a cart item: absent, a number, a string, or an
\* object { value: { coefficient, exponent }, quantity } with some of its
\* keys; a coefficient is an integer or an object { low, high }.
QuantityField(type, n, hasValue, coefficient, exponent, quantity) ==
  [type |-> type, n |-> n, hasValue |-> hasValue, coefficient |-> coefficient,
   exponent |-> exponent, quantity |-> quantity]
NoQuantity == QuantityField("undefined", 0, FALSE, NoE5, NoNum, NoNum)
PlainNumber(n) == QuantityField("number", n, FALSE, NoE5, NoNum, NoNum)
StringQuantity == QuantityField("string", 0, FALSE, NoE5, NoNum, NoNum)
EmptyQuantity == QuantityField("object", 0, FALSE, NoE5, NoNum, NoNum)
OnlyQuantity(n) == QuantityField("object", 0, FALSE, NoE5, NoNum, Num(n))
Encoded(coefficient, exponent) ==
  QuantityField("object", 0, TRUE, coefficient, exponent, NoNum)

\* A cart item of the checkout payload: null, or { title, quantity, price }.
NullItem == [isNull |-> TRUE, title |-> "", quantity |-> NoQuantity, priceE5 |-> 0]
CartItem(title, q, price) ==
  [isNull |-> FALSE, title |-> title, quantity |-> q, priceE5 |-> price]

\* The checkout response, as far as the pipeline reads it:
\*   { status, buyer: { phone },
\*     data: { message, userProfile: { phoneNumber },
\*             checkoutPayloads: { fareBreakdown: { charges }, charges, total,
\*               cartItems: { cartItems },
\*               deliveryDetails: { storeUuid,
\*                 location: { latitude, longitude, address1 } } } } }
NoTotal ==
  [analytics |-> NoE5, hasPlain |-> FALSE, plain |-> NoE5, currencyCode |-> None]
Payloads(charges, total, items, store, coords, addr) ==
  [charges |-> charges, altCharges |-> <<>>, total |-> total, cartItems |-> items,
   storeUuid |-> store, coords |-> coords, addr |-> addr]
EmptyPayloads == Payloads(<<>>, NoTotal, <<>>, None, FALSE, <<>>)
CheckoutBody(status, message, buyerPhone, profilePhone, payloads) ==
  [status |-> status, message |-> message, buyerPhone |-> buyerPhone,
   profilePhone |-> profilePhone, payloads |-> payloads, fav |-> NoFav]

E5Charge(title, v) == Charge(title, <<>>, "", NoE5, None, E5Int(v), NoNum)
PlainCharge(title, v) == Charge(title, <<>>, "", NoE5, None, NoE5, Num(v))
Total31 ==
  [NoTotal EXCEPT !.analytics = E5Long(3100000), !.currencyCode = "USD"]
Total25 ==
  [NoTotal EXCEPT !.analytics = E5Long(2500000), !.currencyCode = "USD"]
Fare26 ==
  <<<<PlainCharge(TitleObj(T_Subtotal), 2600000),
      PlainCharge(TitleObj(T_UberOne), 0 - 250000)>>, Total31>>
Fares ==
  {<<<<>>, NoTotal>>,
   <<<<PlainCharge(TitleObj(T_Subtotal), 3300000),
       PlainCharge(TitleObj(T_DeliveryFee), 399000),
       PlainCharge(TitleObj(T_Tax), 144000)>>, NoTotal>>,
   Fare26,
   <<<<PlainCharge(TitleStr(T_Subtotal), 1800000)>>, NoTotal>>}
\* Totals in the plain field: alone, next to the analytics-info field, zero.
TotalPlain29 == [NoTotal EXCEPT !.hasPlain = TRUE, !.plain = E5Int(2900000)]
TotalBoth == [Total31 EXCEPT !.hasPlain = TRUE, !.plain = E5Int(2900000)]
TotalZero == [NoTotal EXCEPT !.hasPlain = TRUE, !.plain = E5Int(0)]
\* Fares with negative charges, with titles that are plain strings, and with
\* the totals above.
MoreFares ==
  {<<<<PlainCharge(TitleObj(T_Subtotal), 2600000),
       PlainCharge(TitleObj(T_Random), 0 - 300000)>>, Total31>>,
   <<<<PlainCharge(TitleObj(T_Subtotal), 2600000),
       PlainCharge(TitleStr(T_UberOne), 0 - 250000)>>, Total31>>,
   <<<<PlainCharge(TitleStr(T_Subtotal), 1800000),
       PlainCharge(TitleStr(T_DeliveryFee), 399000),
       PlainCharge(TitleStr(T_Tax), 144000)>>, NoTotal>>,
   <<<<PlainCharge(TitleObj(T_Subtotal), 1800000),
       PlainCharge(TitleObj(T_Subtotal), 800000),
       PlainCharge(TitleObj(T_Misc), 100000)>>, NoTotal>>,
   <<<<PlainCharge(TitleObj(T_Subtotal), 2000000)>>, Total25>>,
   <<<<PlainCharge(TitleObj(T_Subtotal), 3100000)>>, Total31>>,
   <<<<PlainCharge(TitleObj(T_Subtotal), 800000)>>, NoTotal>>,
   <<<<PlainCharge(TitleObj(T_Subtotal), 2600000),
       PlainCharge(TitleObj(T_Misc), 400)>>, Total31>>,
   <<<<PlainCharge(TitleObj(T_Subtotal), 2600000),
       PlainCharge(TitleObj(T_Misc), 400)>>, NoTotal>>,
   <<<<E5Charge(TitleObj(T_Subtotal), 1234500),
       E5Charge(TitleObj(T_Misc), 1234500)>>, NoTotal>>} \cup
  {<<Fare26[1], t>> : t \in {TotalPlain29, TotalBoth, TotalZero}}
ItemLists == {<<>>, <<CartItem("Burger", PlainNumber(2), 1250000)>>, <<NullItem>>}
QuantityFields ==
  {Encoded(c, Num(e)) : c \in {E5Int(150), E5Long(150)}, e \in {0 - 2, 0, 1}} \cup
  {Encoded(E5Int(300), Num(0)), Encoded(E5Int(25), Num(0 - 1)),
   Encoded(E5Int(0), Num(0)), Encoded(E5Long(0), Num(1)),
   Encoded(E5Int(150), NoNum), Encoded(NoE5, Num(1)),
   OnlyQuantity(4), PlainNumber(3), StringQuantity, EmptyQuantity, NoQuantity}
FavCheckoutBodies ==
  {[CheckoutBody("success", None, None, None,
                 Payloads(Fare26[1], Fare26[2],
                          <<CartItem("Burger", PlainNumber(2), 1250000)>>, None, TRUE,
                          <<<<"7", "Elm", "Rd">>>>))
      EXCEPT !.fav = f] :
     f \in {[NoFav EXCEPT !.plain = <<RomaIdFirst, RomaIdFirst>>],
            [NoFav EXCEPT !.nested = <<RomaIdFirst>>],
            [NoFav EXCEPT !.payload = <<RomaIdFirst>>],
            [NoFav EXCEPT !.plain = <<Sushi>>, !.depth = DeepLevel]}}
CheckoutBodies ==
  FavCheckoutBodies \cup
  {CheckoutBody("success", None, None, None,
                Payloads(fare[1], fare[2], <<CartItem("Burger", PlainNumber(2), 1250000)>>,
                         None, FALSE, <<>>)) : fare \in MoreFares} \cup
  {CheckoutBody("failure", m, None, None, EmptyPayloads) :
     m \in {None, "Cart is closed"}} \cup
  {CheckoutBody("success", None, None, None,
                Payloads(Fare26[1], Fare26[2], <<CartItem("Fries", q, 450000)>>,
                         None, TRUE, <<<<"7", "Elm", "Rd">>>>)) :
     q \in QuantityFields} \cup
  {CheckoutBody("success", None, None, None,
                Payloads(fare[1], fare[2], it, None, FALSE, <<>>)) :
     fare \in Fares, it \in ItemLists} \cup
  {CheckoutBody("success", None, bp, pp,
                Payloads(Fare26[1], Fare26[2], <<CartItem("Burger", PlainNumber(2), 1250000)>>,
                         s, loc[1], loc[2])) :
     bp \in {None, "111"}, pp \in {None, "222"}, s \in {None, "store-K"},
     loc \in {<<FALSE, <<>>>>, <<TRUE, <<>>>>, <<TRUE, <<<<"7", "Elm", "Rd">>>>>>}}

\* The store response: { data: { title, location: { address },
\*   storeInfoMetadata: { workingHoursTagline }, headerBrandingInfo: {
\*   logoImageURL }, ... } }.  A title is its words.
StoreBody(title, address, hours, logo, uberOne) ==
  [title |-> title, address |-> address, hours |-> hours, logo |-> logo,
   uberOne |-> uberOne]
EmptyStoreBody == StoreBody(<<>>, None, None, None, FALSE)
StoreBodies ==
  {EmptyStoreBody,
   StoreBody(<<"#3", "Burger", "Place">>, "1 Food St", "Open until 10 PM",
             "logo.png", TRUE),
   StoreBody(<<"Burger", "Place">>, "1 Food St", None, None, FALSE)}

\* What the regular expressions of scrapeHtmlForDelivery find in a page.
HtmlBody(coords, addr, instructions, phone) ==
  [coords |-> coords, address |-> addr, instructions |-> instructions,
   phone |-> phone]
EmptyHtmlBody == HtmlBody(FALSE, <<>>, None, None)
HtmlBodies ==
  {EmptyHtmlBody,
   HtmlBody(TRUE, <<<<"Oak", "Avenue">>>>, "Ring the bell", "333"),
   HtmlBody(TRUE, <<>>, None, None)}

\* The reverse-geocode response: { address: { city, state, postcode } }.
GeoBody(city, state, zip) == [city |-> city, state |-> state, postcode |-> zip]
EmptyGeoBody == GeoBody(None, None, None)
GeoBodies == {EmptyGeoBody, GeoBody("Springfield", "Illinois", "62704")}

\* The outcomes of one request over a set of bodies.
Statuses == {HttpOk, 204, 503}
Outcomes(bodies, empty) ==
  {[kind |-> "resp", status |-> s, body |-> b] : s \in {HttpOk}, b \in bodies}
    \cup {[kind |-> "resp", status |-> s, body |-> empty] : s \in Statuses \ {HttpOk}}
    \cup {[kind |-> k, status |-> 0, body |-> empty] : k \in {"timeout", "neterr"}}

JoinOutcomes == Outcomes(JoinBodies, EmptyJoinBody)
CheckoutOutcomes ==
  Outcomes(CheckoutBodies, CheckoutBody("success", None, None, None, EmptyPayloads))
StoreOutcomes == Outcomes(StoreBodies, EmptyStoreBody)
HtmlOutcomes == Outcomes(HtmlBodies, EmptyHtmlBody)
GeoOutcomes == Outcomes(GeoBodies, EmptyGeoBody)

\* The answers considered for a run that the request handler started: a
\* subset of the above.
ScrapeCheckoutBodies ==
  {CheckoutBody("failure", "Cart is closed", None, None, EmptyPayloads)} \cup
  {CheckoutBody("success", None, None, None,
                Payloads(fare[1], fare[2], it, None, FALSE, <<>>)) :
     fare \in Fares, it \in ItemLists}
Few(outs, bodies) ==
  {o \in outs : o.kind = "timeout" \/ (o.status = HttpOk /\ o.body \in bodies)}
ScrapeJoinOutcomes == Few(JoinOutcomes, {EmptyJoinBody, FullJoinBody})
ScrapeCheckoutOutcomes == Few(CheckoutOutcomes, ScrapeCheckoutBodies)
ScrapeStoreOutcomes == Few(StoreOutcomes, StoreBodies \ {EmptyStoreBody})
ScrapeHtmlOutcomes == Few(HtmlOutcomes, HtmlBodies \ {EmptyHtmlBody})
ScrapeGeoOutcomes == Few(GeoOutcomes, GeoBodies \ {EmptyGeoBody})
AnswersOf(caller, outs, few) == IF caller = "top" THEN outs ELSE few

\* ------------------------------------------------------------ extractors
\* findStoreUuid on a join body and on a checkout body.
findStoreUuidJoin(body) == IF body.hasData THEN body.storeUuid ELSE None
findStoreUuid(body) == body.payloads.storeUuid

\* findDeliveryCoords / findDeliveryAddress on the checkout payloads.  An
\* address is the sequence of its comma-separated parts, a part the sequence
\* of its words.
findDeliveryCoords(payloads) == IF payloads.coords THEN "checkout" ELSE None
findDeliveryAddress(payloads) == payloads.addr

\* extractQuantityFromItem: value.coefficient (or its low) times ten to
\* value.exponent, Number(base) || 1 standing for base; else .quantity; a number
\* as it is; 1 for everything else.
extractQuantityFromItem(quantityData) ==
  IF quantityData.type = "object"
  THEN IF quantityData.hasValue /\ quantityData.coefficient.shape # "none"
       THEN LET coeff == quantityData.coefficient
                exponent == IF quantityData.exponent.isNum
                            THEN quantityData.exponent.v ELSE 0
                base == coeff.low
                q == IF base # 0 THEN base ELSE 1
            IN IF exponent < 0 THEN Quotient(q, 0 - exponent)
               ELSE IF exponent > 0 THEN Dec(q * Pow10(exponent), 0)
               ELSE Dec(q, 0)
       ELSE IF quantityData.quantity.isNum THEN Dec(quantityData.quantity.v, 0)
       ELSE Dec(1, 0)
  ELSE IF quantityData.type = "number" THEN Dec(quantityData.n, 0)
  ELSE Dec(1, 0)

\* extractItemName, extractQuantityFromItem and extractPriceFromItem on an item
\* { title: string, quantity, price: number }; an item without a quantity
\* counts once.
OrderItem(item) ==
  [name |-> IF item.title # "" THEN item.title ELSE "Unknown Item",
   quantity |-> IF item.quantity.type # "undefined"
                THEN extractQuantityFromItem(item.quantity) ELSE Dec(1, 0),
   price |-> item.priceE5]

\* extractOrderItemsFromCheckout: reading .quantity of a null entry throws a
\* TypeError, which the function does not catch.
extractOrderItemsFromCheckout(body) ==
  LET cartItems == body.payloads.cartItems
  IN IF \E i \in 1 .. Len(cartItems) : cartItems[i].isNull
     THEN [threw |-> TRUE, items |-> <<>>]
     ELSE [threw |-> FALSE,
           items |-> [i \in 1 .. Len(cartItems) |-> OrderItem(cartItems[i])]]

\* Customer objects are tracked by their customer_phone key; None is an absent
\* key.
Customer(phone) ==
  [customer_phone |-> phone, customer_favorite_restaurants |-> <<>>]
CustomerWith(phone, favorites) ==
  [customer_phone |-> phone, customer_favorite_restaurants |-> favorites]

\* The list under the favorite-restaurant key that a search descending into
\* objects and arrays alike finds: findCustomerData and searchForCustomerData
\* call themselves on every value and test no depth.
RECURSIVE deepFavorites(_)
deepFavorites(fav) ==
  IF fav.depth = 0
  THEN IF Len(fav.nested) > 0 THEN fav.nested ELSE fav.plain
  ELSE deepFavorites([fav EXCEPT !.depth = @ - 1])

\* extractData(obj, path, depth) of extractRealCustomerData: it returns at
\* once when depth > 10, takes the list under a restaurant-like key of obj, and
\* calls itself with depth + 1 on the values that are objects and no arrays.
RECURSIVE extractData(_, _)
extractData(fav, depth) ==
  IF depth > DepthCap THEN <<>>
  ELSE IF fav.depth = 0 THEN fav.plain
  ELSE extractData([fav EXCEPT !.depth = @ - 1], depth + 1)

\* [...new Set(list.map(JSON.stringify))].map(JSON.parse): the first of the
\* entries with the same serialisation is kept.
RECURSIVE uniqueByJson(_, _)
uniqueByJson(list, n) ==
  IF n = 0 THEN <<>>
  ELSE Bind(uniqueByJson(list, n - 1),
            LAMBDA kept : IF \E j \in 1 .. n - 1 : list[j] = list[n]
                          THEN kept ELSE Append(kept, list[n]))

\* extractCustomerDetails(checkout body): data.data.userProfile.phoneNumber,
\* then data.buyer.phone, each only when no phone was found before; the
\* list under a favorite-restaurant key anywhere in the body.
extractCustomerDetails(body) ==
  CustomerWith(IF body.profilePhone # None THEN body.profilePhone
               ELSE body.buyerPhone,
               deepFavorites(body.fav))

\* extractCustomerFromJoinData(joinData.data): userProfile.phoneNumber; the
\* list under a favorite-restaurant key anywhere in the data.
extractCustomerFromJoinData(body) ==
  CustomerWith(body.profilePhone, deepFavorites(body.fav))

\* extractCustomerFromCheckoutData(checkout body .data):
\* userProfile.phoneNumber; checkoutPayloads.favorites, replaced by the list
\* under a favorite-restaurant key when the search finds one.
extractCustomerFromCheckoutData(body) ==
  CustomerWith(body.profilePhone,
               IF Len(deepFavorites(body.fav)) > 0 THEN deepFavorites(body.fav)
               ELSE body.fav.payload)

\* extractRealCustomerData: the first string under a phone-like key, in key
\* order (buyer before data); the lists under restaurant-like keys reached
\* through objects only (arrays are not descended), without repeated
\* serialisations.
extractRealCustomerData(body) ==
  CustomerWith(IF body.buyerPhone # None THEN body.buyerPhone
               ELSE body.profilePhone,
               Bind(extractData(body.fav, 0),
                    LAMBDA list : uniqueByJson(list, Len(list))))
extractRealCustomerDataJoin(body) ==
  CustomerWith(IF body.hasData THEN body.profilePhone ELSE None,
               Bind(extractData(body.fav, 0),
                    LAMBDA list : uniqueByJson(list, Len(list))))

\* A pass found a value for the key.
Found(k, v) == IF k = "customer_phone" THEN v # None ELSE Len(v) > 0

\* Object.assign(target, source): every key of the source overwrites.
ObjectAssignMut(target, source) ==
  [k \in DOMAIN target |-> IF Found(k, target[k]) THEN target[k] ELSE source[k]]
ObjectAssign(target, source) ==
  [k \in DOMAIN target |-> IF Found(k, source[k]) THEN source[k] ELSE target[k]]

\* if (source[key] && !target[key]) target[key] = source[key], for the keys
\* other than the four lists.
mergeMissing(target, source) ==
  [k \in DOMAIN target |->
     IF k = "customer_phone" /\ target[k] = None THEN source[k] ELSE target[k]]

\* The list merge: the list held, then those of extractRealCustomerData on
\* the checkout and on the join response.
mergeLists(c, realCustomerData, realJoinData) ==
  [c EXCEPT !.customer_favorite_restaurants =
              @ \o realCustomerData.customer_favorite_restaurants
                \o realJoinData.customer_favorite_restaurants]

\* Remove duplicates.
removeDuplicates(c) ==
  [c EXCEPT !.customer_favorite_restaurants = uniqueByJson(@, Len(@))]

\* The entries of a list.
Entries(list) == {list[i] : i \in 1 .. Len(list)}
\* The entries of the lists a response holds deeper than the cap, and of
\* those it holds within the cap.
belowCap(fav) ==
  IF fav.depth > DepthCap THEN Entries(fav.plain) \cup Entries(fav.nested)
  ELSE {}
withinCap(fav) ==
  Entries(fav.payload) \cup
  (IF fav.depth > DepthCap THEN {}
   ELSE Entries(fav.plain) \cup Entries(fav.nested))
\* The favorite-restaurant entries the four extraction passes find in the two
\* responses.
foundByPasses(joinData, body) ==
  Entries(extractCustomerDetails(body).customer_favorite_restaurants) \cup
  Entries(extractCustomerFromCheckoutData(body).customer_favorite_restaurants) \cup
  Entries(extractRealCustomerData(body).customer_favorite_restaurants) \cup
  Entries(extractRealCustomerDataJoin(joinData).customer_favorite_restaurants) \cup
  (IF joinData.hasData
   THEN Entries(extractCustomerFromJoinData(joinData).customer_favorite_restaurants)
   ELSE {})

\* The customer merge of getOrderDetails.
mergeCustomer(joinData, body) ==
  LET c1 == extractCustomerDetails(body)
      c2 == IF joinData.hasData
            THEN ObjectAssign(c1, extractCustomerFromJoinData(joinData)) ELSE c1
      c3 == ObjectAssign(c2, extractCustomerFromCheckoutData(body))
      c4 == mergeLists(c3, extractRealCustomerData(body),
                       extractRealCustomerDataJoin(joinData))
      c5 == mergeMissing(c4, extractRealCustomerData(body))
      c6 == mergeMissing(c5, extractRealCustomerDataJoin(joinData))
  IN removeDuplicates(c6)

\* The restaurant name of a store title: a leading "#n" word is dropped.
StartsWithHash(w) == w \in {"#3"}
restaurantName(title) ==
  IF Len(title) = 0 THEN <<>>
  ELSE IF StartsWithHash(title[1])
       THEN (IF Len(title) > 1 THEN Tail(title) ELSE title)
       ELSE title

\* scrapeHtmlForDelivery: the request's failure is caught; a status other
\* than 200 yields no phone key at all.
NoHtml == [address |-> <<>>, coords |-> None, instructions |-> None, phone |-> None]
scrapeHtmlForDelivery(o) ==
  IF ~AxiosResolves(o) \/ o.status # HttpOk THEN NoHtml
  ELSE [address |-> o.body.address,
        coords |-> IF o.body.coords THEN "html" ELSE None,
        instructions |-> o.body.instructions, phone |-> o.body.phone]

\* getLocationDetails: null on any failure of the request.
stateMap(state) == IF state = "Illinois" THEN "IL" ELSE state
NoLoc == [found |-> FALSE, city |-> None, state |-> None, zip |-> None]
getLocationDetails(o) ==
  IF ~AxiosResolves(o) THEN NoLoc
  ELSE [found |-> TRUE, city |-> o.body.city,
        state |-> IF o.body.state # None THEN stateMap(o.body.state) ELSE None,
        zip |-> o.body.postcode]

\* /\d/.test(address): an address is a sequence of parts, a part a sequence
\* of words; DigitWords are the words of the universe that hold a digit.
DigitWords == {"12", "2", "7", "62704"}
hasDigit(address) ==
  \E i \in 1 .. Len(address) : \E j \in 1 .. Len(address[i]) :
     address[i][j] \in DigitWords
locParts(loc) ==
  (IF loc.city # None THEN <<<<loc.city>>>> ELSE <<>>) \o
  (IF loc.state # None /\ loc.zip # None THEN <<<<loc.state, loc.zip>>>>
   ELSE IF loc.state # None THEN <<<<loc.state>>>>
   ELSE IF loc.zip # None THEN <<<<loc.zip>>>> ELSE <<>>)

\* ---------------------------------------------------------- getOrderDetails
\* An error string is its fixed text followed by a status or a detail.
NoError == [present |-> FALSE, text |-> "", status |-> 0, detail |-> ""]
ErrorText(text, status, detail) ==
  [present |-> TRUE, text |-> text, status |-> status, detail |-> detail]
ErrorOf(o) ==
  ErrorText(AxiosErrorMessage(o).text, AxiosErrorMessage(o).status, "")
TypeErrorMessage ==
  ErrorText("Cannot read properties of null (reading 'quantity')", 0, "")

NoRestaurant ==
  [restaurantName |-> <<>>, restaurantAddress |-> None, restaurantHours |-> None,
   restaurantImageUrl |-> None, isUberOneEligible |-> FALSE]
NoBreakdown == extractSubtotalAndFeesFromCheckoutPayloads(EmptyPayloads)

\* The object a run returns.  A key the object does not have is
\* error.present = FALSE for error and the zero value for the others.
Result(success, err, b, items, total, rest, address, instructions, customer) ==
  [success |-> success, error |-> err,
   subtotal |-> b.subtotal, fees |-> b.fees, taxes |-> b.taxes,
   delivery_fee |-> b.deliveryFee, service_fee |-> b.serviceFee, tip |-> b.tip,
   small_order_fee |-> b.smallOrderFee, adjustments_fee |-> b.adjustmentsFee,
   pickup_fee |-> b.pickupFee, other_fees |-> b.otherFees,
   has_uber_one |-> b.hasUberOne, uber_one_benefit |-> b.uberOneBenefit,
   items |-> items, restaurant_name |-> rest.restaurantName,
   restaurant_address |-> rest.restaurantAddress,
   restaurant_hours |-> rest.restaurantHours,
   delivery_address |-> address, delivery_instructions |-> instructions,
   restaurant_image_url |-> rest.restaurantImageUrl,
   is_uber_one_eligible |-> rest.isUberOneEligible,
   total |-> total, currency |-> b.currencyCode, customer_details |-> customer]
FailureResult(err) ==
  Result(FALSE, err, NoBreakdown, <<>>, 0, NoRestaurant, <<>>, None, Customer(None))

NoResult == FailureResult(NoError)

\* What a run met on its way (kept for the properties, not read by the run):
\* the HTTP status of the join and checkout answers, the checkout body's
\* status and message, the phone extractCustomerDetails found, whether the
\* reconciler ran, whether the store request failed, and which of the HTML
\* and geocode fetches failed, the list entries the extraction passes found,
\* the checkout payloads the reconciler read and the breakdown at the end of
\* its charge loop.
NothingSeen ==
  [join |-> 0, checkout |-> 0, bodyStatus |-> None, message |-> None,
   firstPhone |-> None, reconciled |-> FALSE, storeFailed |-> FALSE,
   failed |-> {}, found |-> {}, belowCap |-> {},
   payloads |-> EmptyPayloads, classified |-> ZeroBreakdown]

\* The locals of one run of getOrderDetails.
NoRun ==
  [link |-> NoLink, caller |-> "top", sessionSid |-> "",
   joinData |-> EmptyJoinBody, storeUuid |-> None, deliveryCoords |-> None,
   deliveryAddress |-> <<>>, deliveryInstructions |-> None,
   checkoutCoords |-> None, checkoutAddress |-> <<>>,
   breakdown |-> NoBreakdown, items |-> <<>>, customerDetails |-> Customer(None),
   restaurant |-> NoRestaurant, seen |-> NothingSeen,
   returned |-> FALSE, thrown |-> FALSE, result |-> NoResult]

\* The result for a link without a UUID: it has no error key.
InvalidLinkResultMut == FailureResult(ErrorText("invalid link", 0, ""))
InvalidLinkResult == FailureResult(NoError)

\* The positions of getOrderDetails that lie inside its try block.
InTryMut(pos) == pos \in {"join", "checkout", "reconcile", "html", "geocode"}
InTry(pos) ==
  pos \in {"join", "checkout", "reconcile", "store", "html", "geocode"}

\* A step of a run: its locals afterwards, where it continues, and the request
\* it issues there (None when it issues none).
Step(r, to, req) == [r |-> r, to |-> to, req |-> req]
\* A run that ends keeps its result; its locals are gone.
Ended(r) ==
  [NoRun EXCEPT !.link = r.link, !.caller = r.caller,
                !.sessionSid = r.sessionSid, !.seen = r.seen]
Return(r, res) ==
  Step([Ended(r) EXCEPT !.result = res, !.returned = TRUE], "return", None)
Throw(r, pos, err) ==
  IF InTry(pos) THEN Return(r, FailureResult(err))
  ELSE Step([Ended(r) EXCEPT !.thrown = TRUE], "return", None)

\* The success return, with the total computed when the payload gave none.
finish(r) ==
  LET b == r.breakdown
      calculatedTotal == IF b.total = 0 THEN b.subtotal + b.fees + b.taxes
                         ELSE b.total
  IN Bind(Result(TRUE, NoError, b, r.items, calculatedTotal, r.restaurant,
                 r.deliveryAddress, r.deliveryInstructions, r.customerDetails),
          LAMBDA res : Return(r, res))

\* The fetches whose failure the fetching function catches itself:
\* scrapeHtmlForDelivery and getLocationDetails wrap their request in try/catch.
CaughtMut(stage) == FALSE
Caught(stage) == stage \in {"html", "geocode"}
\* The HTML fetch gave no page: the request failed or its status is not 200.
HtmlFails(o) == ~AxiosResolves(o) \/ o.status # HttpOk
\* The geocode request failed.
GeoFails(o) == ~AxiosResolves(o)

\* Reverse geocode enhancement of the address.
enhance(address, loc) ==
  IF ~loc.found THEN address
  ELSE IF Len(address) > 0 /\ hasDigit(address)
       THEN <<address[1]>> \o locParts(loc)
       ELSE IF Len(locParts(loc)) > 0 THEN locParts(loc) ELSE address
afterGeocode(r, o) ==
  IF GeoFails(o) /\ ~Caught("geocode")
  THEN Throw([r EXCEPT !.seen.failed = @ \cup {"geocode"}], "geocode", ErrorOf(o))
  ELSE Bind([r EXCEPT !.deliveryAddress = enhance(@, getLocationDetails(o)),
                      !.seen.failed =
                         IF GeoFails(o) THEN @ \cup {"geocode"} ELSE @],
            finish)

beforeGeocode(r) ==
  IF r.deliveryCoords # None THEN Step(r, "geocode", "geocode") ELSE finish(r)

\* The second HTML fetch, made when no phone is known.
afterHtml2(r, o) ==
  LET html == scrapeHtmlForDelivery(o)
  IN IF HtmlFails(o) /\ ~Caught("html")
     THEN Throw([r EXCEPT !.seen.failed = @ \cup {"html2"}], "html", ErrorOf(o))
     ELSE
     Bind([r EXCEPT !.customerDetails = mergeMissing(@, Customer(html.phone)),
                    !.deliveryInstructions =
                       IF @ = None THEN html.instructions ELSE @,
                    !.seen.failed = IF HtmlFails(o) THEN @ \cup {"html2"} ELSE @],
          beforeGeocode)
beforeHtml2(r) ==
  IF r.customerDetails.customer_phone = None /\ r.link.present
  THEN Step(r, "html2", "html") ELSE beforeGeocode(r)

\* The first HTML fetch, made when coordinates or address are missing.
afterHtml1(r, o) ==
  LET html == scrapeHtmlForDelivery(o)
  IN IF HtmlFails(o) /\ ~Caught("html")
     THEN Throw([r EXCEPT !.seen.failed = @ \cup {"html1"}], "html", ErrorOf(o))
     ELSE
     Bind([r EXCEPT !.deliveryCoords = IF @ = None THEN html.coords ELSE @,
                    !.deliveryAddress = IF Len(@) = 0 THEN html.address ELSE @,
                    !.deliveryInstructions =
                       IF @ = None THEN html.instructions ELSE @,
                    !.customerDetails = mergeMissing(@, Customer(html.phone)),
                    !.seen.failed = IF HtmlFails(o) THEN @ \cup {"html1"} ELSE @],
          beforeHtml2)
beforeHtml1(r) ==
  Bind([r EXCEPT !.deliveryCoords = IF @ = None THEN r.checkoutCoords ELSE @,
                 !.deliveryAddress = IF Len(@) = 0 THEN r.checkoutAddress ELSE @],
       LAMBDA r1 :
         IF (r1.deliveryCoords = None \/ Len(r1.deliveryAddress) = 0)
            /\ r1.link.present
         THEN Step(r1, "html1", "html") ELSE beforeHtml2(r1))

\* The store-metadata answer.  The request is awaited inside the try block
\* with no handler of its own.
afterStore(r, o) ==
  IF ~AxiosResolves(o)
  THEN Throw([r EXCEPT !.seen.storeFailed = TRUE], "store", ErrorOf(o))
  ELSE Bind([r EXCEPT !.restaurant =
               [restaurantName |-> restaurantName(o.body.title),
                restaurantAddress |-> o.body.address,
                restaurantHours |-> o.body.hours,
                restaurantImageUrl |-> o.body.logo,
                isUberOneEligible |-> o.body.uberOne]],
            beforeHtml1)
beforeStore(r) ==
  IF r.storeUuid # None THEN Step(r, "store", "store") ELSE beforeHtml1(r)

\* checkoutRes.data?.status === 'failure'
providerFailedMut(body) == FALSE
providerFailed(body) == body.status = "failure"

\* The checkout answer, up to the next request or the return.
checkoutSeen(r, o) ==
  [r EXCEPT !.seen.checkout = o.status,
            !.seen.bodyStatus = IF AxiosResolves(o) THEN o.body.status ELSE None,
            !.seen.message = IF AxiosResolves(o) THEN o.body.message ELSE None]
afterCheckoutSeen(r, o) ==
  IF ~AxiosResolves(o) THEN Throw(r, "checkout", ErrorOf(o))
  ELSE IF o.status # HttpOk
  THEN Return(r, FailureResult(ErrorText("checkout failed: ", o.status, "")))
  ELSE IF providerFailed(o.body)
  THEN Return(r, FailureResult(
         ErrorText("Uber Eats API error: ", 0,
                   IF o.body.message # None THEN o.body.message
                   ELSE "Unknown error")))
  ELSE Bind([r EXCEPT
               !.breakdown =
                  extractSubtotalAndFeesFromCheckoutPayloads(o.body.payloads),
               !.seen.reconciled = TRUE,
               !.seen.payloads = o.body.payloads,
               !.seen.classified = classified(o.body.payloads),
               !.seen.firstPhone = extractCustomerDetails(o.body).customer_phone,
               !.seen.found = foundByPasses(r.joinData, o.body),
               !.seen.belowCap =
                  (belowCap(r.joinData.fav) \cup belowCap(o.body.fav))
                    \ (withinCap(r.joinData.fav) \cup withinCap(o.body.fav))],
            LAMBDA r1 :
              LET extracted == extractOrderItemsFromCheckout(o.body)
              IN IF extracted.threw THEN Throw(r1, "reconcile", TypeErrorMessage)
                 ELSE Bind([r1 EXCEPT
                              !.items = extracted.items,
                              !.customerDetails = mergeCustomer(r.joinData, o.body),
                              !.joinData = EmptyJoinBody,
                              !.storeUuid =
                                 IF @ = None THEN findStoreUuid(o.body) ELSE @,
                              !.checkoutCoords = findDeliveryCoords(o.body.payloads),
                              !.checkoutAddress =
                                 findDeliveryAddress(o.body.payloads)],
                           beforeStore))
afterCheckout(r, o) == Bind(checkoutSeen(r, o), LAMBDA r0 : afterCheckoutSeen(r0, o))

\* The join answer, up to the checkout request or the return.
afterJoin(r, o) ==
  IF ~AxiosResolves(o) THEN Throw([r EXCEPT !.seen.join = o.status], "join", ErrorOf(o))
  ELSE IF o.status # HttpOk
  THEN Return([r EXCEPT !.seen.join = o.status],
              FailureResult(ErrorText("join failed: ", o.status, "")))
  ELSE Step([r EXCEPT
               !.seen.join = o.status,
               !.joinData = o.body,
               !.storeUuid = findStoreUuidJoin(o.body),
               !.deliveryCoords =
                  IF o.body.hasData /\ o.body.coords THEN "join" ELSE None,
               !.deliveryAddress = IF o.body.hasData THEN o.body.addr ELSE <<>>],
            "checkout", "checkout")

\* Where a run that ended continues: its caller.
ReturnPc(caller) == IF caller = "top" THEN "done" ELSE "scraped"

\* The effect of a step of process p that consumed the answer to request got.
Apply(p, step, got) ==
  \E s \in {step} :
  /\ run' = [run EXCEPT ![p] = s.r]
  /\ net' = [net EXCEPT ![p] =
               IF s.req = None THEN Recv(@, got) ELSE Send(Recv(@, got), s.req)]
  /\ pc' = [pc EXCEPT ![p] =
              IF s.to = "return" THEN ReturnPc(run[p].caller) ELSE s.to]

\* getOrderDetails from its entry to its first await (or to its return).
getOrderDetails(p) ==
  /\ pc[p] = "getOrderDetails"
  /\ IF extractGroupUuid(run[p].link) = None
     THEN /\ run' = [run EXCEPT ![p].result = InvalidLinkResult,
                                ![p].returned = TRUE]
          /\ pc' = [pc EXCEPT ![p] = ReturnPc(run[p].caller)]
          /\ UNCHANGED ens
     ELSE /\ pc' = [pc EXCEPT ![p] = "ensure"]
          /\ ens' = [ens EXCEPT ![p] = [NoEns EXCEPT !.retTo = "getOrderDetails"]]
          /\ UNCHANGED run
  /\ UNCHANGED <<credVars, now, ctl, net, orders>>

\* After ensureValidSid: the session is created with the current token and
\* the join request is issued.
joinRequest(p) ==
  /\ pc[p] = "ensured"
  /\ ens[p].retTo = "getOrderDetails"
  /\ run' = [run EXCEPT ![p].sessionSid = UBER_SID]
  /\ net' = [net EXCEPT ![p] = Send(@, "join")]
  /\ pc' = [pc EXCEPT ![p] = "join"]
  /\ UNCHANGED <<credVars, now, ens, ctl, orders>>

joinResponse(p) ==
  /\ pc[p] = "join"
  /\ \E o \in AnswersOf(run[p].caller, JoinOutcomes, ScrapeJoinOutcomes) :
       Apply(p, afterJoin(run[p], o), "join")
  /\ UNCHANGED <<credVars, now, ens, ctl, orders>>

checkoutResponse(p) ==
  /\ pc[p] = "checkout"
  /\ \E o \in AnswersOf(run[p].caller, CheckoutOutcomes, ScrapeCheckoutOutcomes) :
       Apply(p, afterCheckout(run[p], o), "checkout")
  /\ UNCHANGED <<credVars, now, ens, ctl, orders>>

storeResponse(p) ==
  /\ pc[p] = "store"
  /\ \E o \in AnswersOf(run[p].caller, StoreOutcomes, ScrapeStoreOutcomes) :
       Apply(p, afterStore(run[p], o), "store")
  /\ UNCHANGED <<credVars, now, ens, ctl, orders>>

html1Response(p) ==
  /\ pc[p] = "html1"
  /\ \E o \in AnswersOf(run[p].caller, HtmlOutcomes, ScrapeHtmlOutcomes) :
       Apply(p, afterHtml1(run[p], o), "html")
  /\ UNCHANGED <<credVars, now, ens, ctl, orders>>

html2Response(p) ==
  /\ pc[p] = "html2"
  /\ \E o \in AnswersOf(run[p].caller, HtmlOutcomes, ScrapeHtmlOutcomes) :
       Apply(p, afterHtml2(run[p], o), "html")
  /\ UNCHANGED <<credVars, now, ens, ctl, orders>>

geocodeResponse(p) ==
  /\ pc[p] = "geocode"
  /\ \E o \in AnswersOf(run[p].caller, GeoOutcomes, ScrapeGeoOutcomes) :
       Apply(p, afterGeocode(run[p], o), "geocode")
  /\ UNCHANGED <<credVars, now, ens, ctl, orders>>

\* A caller of the exported getOrderDetails.
CallGetOrderDetails(p) ==
  /\ pc[p] = "idle"
  /\ \E link \in Links :
       run' = [run EXCEPT ![p] = [NoRun EXCEPT !.link = link]]
  /\ net' = [net EXCEPT ![p] = NoNet]
  /\ ens' = [ens EXCEPT ![p] = NoEns]
  /\ pc' = [pc EXCEPT ![p] = "getOrderDetails"]
  /\ UNCHANGED <<credVars, now, ctl, orders>>

\* ------------------------------------------- scrapeUberEatsGroupOrderLink
\* The length of a token, as far as the code compares it with 20.
length(sid) == IF sid = "" THEN 0 ELSE IF sid = "short" THEN 5 ELSE 40
RequestSids == {None, "short", "sidA", "sidB"}

\* An Order document, by the fields the handler queries and writes.
Order(id, url, status, subtotal, total) ==
  [order_id |-> id, cart_url |-> url, status |-> status, subtotal |-> subtotal,
   total |-> total]
matching(docs, url) == {o \in docs : o.cart_url = url}
ActiveStatuses == {"PLACED", "DELIVERED"}
NoOrder == 0
generateOrderId(docs) ==
  IF docs = {} THEN 1
  ELSE 1 + CHOOSE m \in {o.order_id : o \in docs} :
              \A o \in docs : o.order_id <= m

minimumOrderAmount == 25 * 100000
maximumOrderAmount == 32 * 100000
UsageLimit == 3
TestUrls == 4

\* The state of one request: its body, what the handler found, and how it
\* ended (a JSON response sent, or an ErrorHandler thrown to the middleware).
NoResponse == [sent |-> FALSE, status |-> 0, success |-> FALSE, message |-> NoError]
NoCtl ==
  [active |-> FALSE, url |-> NoLink, sid |-> None, probe |-> 0,
   authResult |-> FALSE, order |-> NoOrder, thrown |-> FALSE,
   thrownMessage |-> "", response |-> NoResponse]

\* The handler ends: its locals and the log of its requests are gone.
EndRequest(p) ==
  /\ run' = [run EXCEPT ![p] = NoRun]
  /\ net' = [net EXCEPT ![p] = NoNet]
  /\ pc' = [pc EXCEPT ![p] = "responded"]

\* throw new ErrorHandler(message, 400)
ThrowError(p, message) ==
  /\ ctl' = [ctl EXCEPT ![p].thrown = TRUE, ![p].thrownMessage = message]
  /\ EndRequest(p)

\* A request arrives: await SiteSettings.findOne().
scrapeUberEatsGroupOrderLink(p) ==
  /\ pc[p] = "idle"
  /\ \E url \in Links, sid \in RequestSids :
       ctl' = [ctl EXCEPT ![p] = [NoCtl EXCEPT !.active = TRUE, !.url = url,
                                                !.sid = sid]]
  /\ run' = [run EXCEPT ![p] = NoRun]
  /\ ens' = [ens EXCEPT ![p] = NoEns]
  /\ net' = [net EXCEPT ![p] = NoNet]
  /\ pc' = [pc EXCEPT ![p] = "settings"]
  /\ UNCHANGED <<credVars, now, orders>>

\* Availability, URL validation, the optional token update, and the call of
\* ensureValidSid.
Settings == {"unavailable", "closed", "open"}
validateRequest(p) ==
  /\ pc[p] = "settings"
  /\ \E setting \in Settings, w \in BOOLEAN :
       IF setting = "unavailable"
       THEN /\ ThrowError(p, "Service is currently unavailable")
            /\ w /\ UNCHANGED <<credVars, ens>>
       ELSE IF setting = "closed"
       THEN /\ ThrowError(p, "Service is only available during service hours")
            /\ w /\ UNCHANGED <<credVars, ens>>
       ELSE IF ~ctl[p].url.present
       THEN /\ ThrowError(p, "URL is required")
            /\ w /\ UNCHANGED <<credVars, ens>>
       ELSE IF Placeholder \in {ctl[p].url.path, ctl[p].url.query}
       THEN /\ ThrowError(p, "Please provide a real Uber Eats group order link")
            /\ w /\ UNCHANGED <<credVars, ens>>
       ELSE /\ IF ctl[p].sid # None /\ length(ctl[p].sid) >= 20
               THEN LET c == updateSid(sidFile, ctl[p].sid, now, w)
                    IN /\ UBER_SID' = c.sid
                       /\ SID_EXPIRY_TIME' = c.exp
                       /\ sidFile' = c.file
                       /\ UNCHANGED SID_REFRESH_IN_PROGRESS
               ELSE w /\ UNCHANGED credVars
            /\ ens' = [ens EXCEPT ![p] = [NoEns EXCEPT !.retTo = "scrape"]]
            /\ pc' = [pc EXCEPT ![p] = "ensure"]
            /\ UNCHANGED <<ctl, run, net>>
  /\ UNCHANGED <<now, orders>>

\* testAuth: the first probe is sent.
testAuth(p) ==
  /\ pc[p] = "ensured"
  /\ ens[p].retTo = "scrape"
  /\ ctl' = [ctl EXCEPT ![p].probe = 1]
  /\ net' = [net EXCEPT ![p] = Send(@, "authProbe")]
  /\ pc' = [pc EXCEPT ![p] = "testAuth"]
  /\ UNCHANGED <<credVars, now, ens, run, orders>>

\* testAuth: a probe's answer.  Every status resolves (validateStatus is
\* always true); a failed request moves on to the next URL.
AuthOutcomes == {Resp(s, None) : s \in {HttpOk, 401, 404, 503}} \cup {Timeout}
Processed(o) == o.kind = "resp" /\ o.status \in {HttpOk, 400, 401, 403}
testAuthResponse(p) ==
  /\ pc[p] = "testAuth"
  /\ \E o \in AuthOutcomes :
       IF Processed(o)
       THEN /\ ctl' = [ctl EXCEPT ![p].authResult = TRUE]
            /\ net' = [net EXCEPT ![p] = Recv(@, "authProbe")]
            /\ pc' = [pc EXCEPT ![p] = "countAll"]
       ELSE IF ctl[p].probe < TestUrls
       THEN /\ ctl' = [ctl EXCEPT ![p].probe = @ + 1]
            /\ net' = [net EXCEPT ![p] = Send(Recv(@, "authProbe"), "authProbe")]
            /\ UNCHANGED pc
       ELSE /\ ctl' = [ctl EXCEPT ![p].authResult = length(UBER_SID) > 20]
            /\ net' = [net EXCEPT ![p] = Recv(@, "authProbe")]
            /\ pc' = [pc EXCEPT ![p] = "countAll"]
  /\ UNCHANGED <<credVars, now, ens, run, orders>>

\* await Order.countDocuments({ user_id, cart_url })
countAll(p) ==
  /\ pc[p] = "countAll"
  /\ IF Cardinality(matching(orders, ctl[p].url)) >= UsageLimit
     THEN ThrowError(p, "You have already used this link 3 times")
     ELSE pc' = [pc EXCEPT ![p] = "countActive"] /\ UNCHANGED <<ctl, run, net>>
  /\ UNCHANGED <<credVars, now, ens, orders>>

\* await Order.countDocuments({ user_id, cart_url, status: PLACED|DELIVERED })
countActive(p) ==
  /\ pc[p] = "countActive"
  /\ IF Cardinality({o \in matching(orders, ctl[p].url) :
                       o.status \in ActiveStatuses}) >= UsageLimit
     THEN ThrowError(p, "You already have 3 active orders with this link")
     ELSE pc' = [pc EXCEPT ![p] = "findOne"] /\ UNCHANGED <<ctl, run, net>>
  /\ UNCHANGED <<credVars, now, ens, orders>>

\* await Order.findOne({ user_id, cart_url }), then the call of getOrderDetails.
findOne(p) ==
  /\ pc[p] = "findOne"
  /\ \E id \in {o.order_id : o \in matching(orders, ctl[p].url)} \cup {NoOrder} :
       /\ (id = NoOrder) = (matching(orders, ctl[p].url) = {})
       /\ ctl' = [ctl EXCEPT ![p].order = id]
  /\ run' = [run EXCEPT ![p] = [NoRun EXCEPT !.link = ctl[p].url,
                                             !.caller = "scrape"]]
  /\ pc' = [pc EXCEPT ![p] = "getOrderDetails"]
  /\ UNCHANGED <<credVars, now, ens, net, orders>>

\* res.status(code).json({ success, message })
Respond(p, status, success, message) ==
  /\ ctl' = [ctl EXCEPT ![p].response =
               [sent |-> TRUE, status |-> status, success |-> success,
                message |-> message]]
  /\ EndRequest(p)

\* The handler after getOrderDetails: the failure response, the validation of
\* the amounts, and the write of the order.
DefaultMessage == ErrorText("Failed to fetch order details", 0, "")
scraped(p) ==
  /\ pc[p] = "scraped"
  /\ LET orderDetails == run[p].result
     IN IF run[p].thrown
        THEN ThrowError(p, "getOrderDetails threw")
        ELSE IF ~orderDetails.success
        THEN Respond(p, 400, FALSE,
                     IF orderDetails.error.present THEN orderDetails.error
                     ELSE DefaultMessage)
        ELSE IF orderDetails.subtotal <= 0 /\ Len(orderDetails.items) = 0
        THEN ThrowError(p, "No items found in the order")
        ELSE IF orderDetails.subtotal < minimumOrderAmount
        THEN ThrowError(p, "below the minimum order amount")
        ELSE IF orderDetails.subtotal > maximumOrderAmount
        THEN ThrowError(p, "above the maximum order amount")
        ELSE /\ pc' = [pc EXCEPT ![p] =
                         IF ctl[p].order # NoOrder THEN "save" ELSE "create"]
             /\ UNCHANGED <<ctl, run, net>>
  /\ UNCHANGED <<credVars, now, ens, orders>>

\* await order.save(): the fields of the fetched document are written.
orderSave(p) ==
  /\ pc[p] = "save"
  /\ orders' = {IF o.order_id = ctl[p].order
                THEN [o EXCEPT !.subtotal = run[p].result.subtotal,
                               !.total = run[p].result.total]
                ELSE o : o \in orders}
  /\ Respond(p, HttpOk, TRUE, NoError)
  /\ UNCHANGED <<credVars, now, ens>>

\* await Order.create({...}): a new PENDING order.
orderCreate(p) ==
  /\ pc[p] = "create"
  /\ orders' = orders \cup
       {Order(generateOrderId(orders), ctl[p].url, "PENDING",
              run[p].result.subtotal, run[p].result.total)}
  /\ Respond(p, HttpOk, TRUE, NoError)
  /\ UNCHANGED <<credVars, now, ens>>

\* ------------------------------------------------------------- initial state
InitFiles ==
  {NoFile} \cup
  {[present |-> TRUE, sid |-> s, expiryTime |-> e] :
     s \in Sids \cup {""}, e \in {NoTime, FiveMinutes - 1, FiveMinutes + 1}}
EnvSids == {"", "sidA"}


InitCred ==
  /\ sidFile \in InitFiles
  /\ \E env \in EnvSids :
       /\ UBER_SID = loadSidFromFile(sidFile, env).sid
       /\ SID_EXPIRY_TIME = loadSidFromFile(sidFile, env).exp
  /\ SID_REFRESH_IN_PROGRESS = FALSE
  /\ now = 0

InitProcs ==
  /\ pc = [p \in Procs |-> "idle"]
  /\ ens = [p \in Procs |-> NoEns]
  /\ run = [p \in Procs |-> NoRun]
  /\ ctl = [p \in Procs |-> NoCtl]
  /\ net = [p \in Procs |-> NoNet]
  /\ orders = {}

\* The credential store under concurrent callers.
InitSid == InitCred /\ InitProcs
NextSid ==
  \/ \E p \in Procs : CallEnsureValidSid(p)
  \/ \E p \in Procs : ensureValidSid(p)
  \/ \E p \in Procs : autoRefreshSid(p)
  \/ \E p \in Procs : ensureResume(p)
  \/ \E p \in Procs : EnsureReturnTop(p)
  \/ \E p \in Procs : CallUpdateSid(p)
  \/ Tick
SpecSid == InitSid /\ [][NextSid]_vars

\* One caller of getOrderDetails.
Callers == {1}
OrderFiles ==
  {NoFile} \cup
  {[present |-> TRUE, sid |-> "sidA", expiryTime |-> e] :
     e \in {FiveMinutes - 1, FiveMinutes + 1}}
InitOrder ==
  /\ sidFile \in OrderFiles
  /\ UBER_SID = loadSidFromFile(sidFile, "").sid
  /\ SID_EXPIRY_TIME = loadSidFromFile(sidFile, "").exp
  /\ SID_REFRESH_IN_PROGRESS = FALSE
  /\ now = 0
  /\ InitProcs
NextOrder ==
  \/ \E p \in Callers : CallGetOrderDetails(p)
  \/ \E p \in Callers : getOrderDetails(p)
  \/ \E p \in Callers : ensureValidSid(p)
  \/ \E p \in Callers : autoRefreshSid(p)
  \/ \E p \in Callers : ensureResume(p)
  \/ \E p \in Callers : joinRequest(p)
  \/ \E p \in Callers : joinResponse(p)
  \/ \E p \in Callers : checkoutResponse(p)
  \/ \E p \in Callers : storeResponse(p)
  \/ \E p \in Callers : html1Response(p)
  \/ \E p \in Callers : html2Response(p)
  \/ \E p \in Callers : geocodeResponse(p)
SpecOrder == InitOrder /\ [][NextOrder]_vars

\* One client of the endpoint.
ScrapeOrders ==
  {{}, {Order(1, Link("uuid-p", None), "PENDING", 2600000, 3100000)},
   {Order(i, Link(None, "uuid-q"), "PLACED", 2600000, 3100000) : i \in 1 .. UsageLimit}}
InitScrape ==
  /\ sidFile = [present |-> TRUE, sid |-> "sidA", expiryTime |-> FiveMinutes - 1]
  /\ UBER_SID = loadSidFromFile(sidFile, "").sid
  /\ SID_EXPIRY_TIME = loadSidFromFile(sidFile, "").exp
  /\ SID_REFRESH_IN_PROGRESS = FALSE
  /\ now = 0
  /\ pc = [p \in Procs |-> "idle"]
  /\ ens = [p \in Procs |-> NoEns]
  /\ run = [p \in Procs |-> NoRun]
  /\ ctl = [p \in Procs |-> NoCtl]
  /\ net = [p \in Procs |-> NoNet]
  /\ orders \in ScrapeOrders
NextScrape ==
  \/ \E p \in Callers : scrapeUberEatsGroupOrderLink(p)
  \/ \E p \in Callers : validateRequest(p)
  \/ \E p \in Callers : ensureValidSid(p)
  \/ \E p \in Callers : autoRefreshSid(p)
  \/ \E p \in Callers : ensureResume(p)
  \/ \E p \in Callers : testAuth(p)
  \/ \E p \in Callers : testAuthResponse(p)
  \/ \E p \in Callers : countAll(p)
  \/ \E p \in Callers : countActive(p)
  \/ \E p \in Callers : findOne(p)
  \/ \E p \in Callers : getOrderDetails(p)
  \/ \E p \in Callers : joinRequest(p)
  \/ \E p \in Callers : joinResponse(p)
  \/ \E p \in Callers : checkoutResponse(p)
  \/ \E p \in Callers : storeResponse(p)
  \/ \E p \in Callers : html1Response(p)
  \/ \E p \in Callers : html2Response(p)
  \/ \E p \in Callers : geocodeResponse(p)
  \/ \E p \in Callers : scraped(p)
  \/ \E p \in Callers : orderSave(p)
  \/ \E p \in Callers : orderCreate(p)
SpecScrape == InitScrape /\ [][NextScrape]_vars

\* Two clients of the endpoint at once, for the same user.  Each request is
\* one run of the handler; the event loop interleaves them at their awaits.
\* The environment is the favourable one: the service is open, request p
\* carries its own token, every probe and every Uber request succeeds, and
\* the cart is one the handler accepts.
RaceLink == Link("uuid-p", None)
RaceSid(p) == IF p = 1 THEN "sidB" ELSE "sidA"
RacePayloads ==
  Payloads(Fare26[1], Fare26[2], <<CartItem("Burger", PlainNumber(2), 1250000)>>, None,
           FALSE, <<>>)
RaceEnv ==
  \A p \in Procs :
    /\ ctl[p].active => ctl[p].url = RaceLink /\ ctl[p].sid = RaceSid(p)
    /\ ~ctl[p].thrown /\ ~run[p].thrown
    /\ ctl[p].probe <= 1
    /\ ctl[p].response.sent => ctl[p].response.success
    /\ sidFile.present
    /\ run[p].seen.join \in {0, HttpOk}
    /\ run[p].seen.checkout \in {0, HttpOk}
    /\ run[p].seen.payloads \in {EmptyPayloads, RacePayloads}
    /\ run[p].seen.failed = {} /\ ~run[p].seen.storeFailed
    /\ run[p].returned => run[p].result.success
InitRace ==
  /\ sidFile = [present |-> TRUE, sid |-> "sidA", expiryTime |-> FiveMinutes - 1]
  /\ UBER_SID = loadSidFromFile(sidFile, "").sid
  /\ SID_EXPIRY_TIME = loadSidFromFile(sidFile, "").exp
  /\ SID_REFRESH_IN_PROGRESS = FALSE
  /\ now = 0
  /\ InitProcs
NextRace ==
  \/ \E p \in Procs : scrapeUberEatsGroupOrderLink(p) /\ RaceEnv'
  \/ \E p \in Procs : validateRequest(p) /\ RaceEnv'
  \/ \E p \in Procs : ensureValidSid(p) /\ RaceEnv'
  \/ \E p \in Procs : testAuth(p) /\ RaceEnv'
  \/ \E p \in Procs : testAuthResponse(p) /\ RaceEnv'
  \/ \E p \in Procs : countAll(p) /\ RaceEnv'
  \/ \E p \in Procs : countActive(p) /\ RaceEnv'
  \/ \E p \in Procs : findOne(p) /\ RaceEnv'
  \/ \E p \in Procs : getOrderDetails(p) /\ RaceEnv'
  \/ \E p \in Procs : joinRequest(p) /\ RaceEnv'
  \/ \E p \in Procs : joinResponse(p) /\ RaceEnv'
  \/ \E p \in Procs : checkoutResponse(p) /\ RaceEnv'
  \/ \E p \in Procs : storeResponse(p) /\ RaceEnv'
  \/ \E p \in Procs : html1Response(p) /\ RaceEnv'
  \/ \E p \in Procs : html2Response(p) /\ RaceEnv'
  \/ \E p \in Procs : geocodeResponse(p) /\ RaceEnv'
  \/ \E p \in Procs : scraped(p) /\ RaceEnv'
  \/ \E p \in Procs : orderSave(p) /\ RaceEnv'
  \/ \E p \in Procs : orderCreate(p) /\ RaceEnv'
SpecRace == InitRace /\ [][NextRace]_vars

\* ------------------------------------------------------------- properties
\* A run of getOrderDetails that has handed its result to a direct caller.
Finished(p) == pc[p] = "done" /\ run[p].returned
\* The money fields are zero and there are no items: the result is the
\* failure object of its own error.
Zeroed(res) == res = FailureResult(res.error)
\* The text of an error a caller can read is not empty.
NonEmptyError(res) == res.error.present /\ res.error.text # ""

\* C1: getOrderDetails never throws or rejects; every call that ends has
\* returned an object whose success field is a boolean.
C1_NeverThrows ==
  \A p \in Procs :
    /\ ~run[p].thrown
    /\ pc[p] = "done" => run[p].returned /\ run[p].result.success \in BOOLEAN
\* C1 witness: a call whose store request failed (the rejection is raised
\* inside the try block) ended in a returned failure object.
C1_Witness ==
  \E p \in Procs :
    /\ Finished(p)
    /\ run[p].seen.storeFailed
    /\ ~run[p].result.success
    /\ NonEmptyError(run[p].result)

\* C2: a join (or checkout) answered with an HTTP status other than 200, 503
\* for one, ends in success=false with the error "join failed: <status>"
\* ("checkout failed: <status>"), zero subtotal, fees and taxes and no items.
C2_StatusFailure ==
  \A p \in Procs :
    Finished(p) =>
      /\ run[p].seen.join \notin {0, HttpOk} =>
           run[p].result =
             FailureResult(ErrorText("join failed: ", run[p].seen.join, ""))
      /\ run[p].seen.checkout \notin {0, HttpOk} =>
           run[p].result =
             FailureResult(ErrorText("checkout failed: ", run[p].seen.checkout, ""))

\* C3: every result with success=false carries a non-empty error and has zero
\* subtotal, fees and taxes and no items, on every failure path.
C3_FailureShape ==
  \A p \in Procs :
    (Finished(p) /\ ~run[p].result.success) =>
      NonEmptyError(run[p].result) /\ Zeroed(run[p].result)

\* C4: every result with success=true has at least one item or a subtotal
\* above zero.
C4_SuccessHasContent ==
  \A p \in Procs :
    (Finished(p) /\ run[p].result.success) =>
      Len(run[p].result.items) > 0 \/ run[p].result.subtotal > 0

\* C5: when a store identifier was found and the store request fails, the
\* result is still success=true, with the restaurant fields left null.
C5_StoreFailureTolerated ==
  \A p \in Procs :
    (Finished(p) /\ run[p].seen.storeFailed) =>
      /\ run[p].result.success
      /\ run[p].result.restaurant_address = None
      /\ run[p].result.restaurant_hours = None

\* The callers whose login-page request is awaited.
Refreshing == {p \in Procs : pc[p] = "refreshing"}
LoginsInFlight(p) == Len(SelectSeq(net[p].inflight, LAMBDA req : req = "login"))

\* C6: under any interleaving of ensureValidSid calls at most one auto-refresh
\* is in progress; a caller that found one in progress has sent no login
\* request of its own, is not blocked by the running refresh, and returns the
\* token held at the moment it returns.
C6_SingleRefresh ==
  /\ [](/\ Cardinality(Refreshing) <= 1
        /\ \A p \in Procs : LoginsInFlight(p) = (IF p \in Refreshing THEN 1 ELSE 0)
        /\ (Refreshing # {}) = SID_REFRESH_IN_PROGRESS
        /\ \A p \in Procs : ens[p].skipped => ens[p].logins = 0 /\ net[p].sent = <<>>
        /\ \A p \in Procs : pc[p] = "ensureResume" => ENABLED ensureResume(p))
  /\ [][\A p \in Procs :
          (pc[p] = "ensureResume" /\ pc'[p] = "ensured" /\ ens[p].skipped) =>
            /\ ens'[p].ret = UBER_SID
            /\ Refreshing' = Refreshing]_vars
\* C6 witness: a caller that skipped the refresh has returned with the token
\* held, while the other caller's login-page request is still awaited.
C6_Witness ==
  \E p \in Procs, q \in Procs :
    /\ p # q
    /\ pc[q] = "refreshing"
    /\ pc[p] = "ensured"
    /\ ens[p].skipped
    /\ ens[p].ret = UBER_SID

\* C7: a customer_phone set by extractCustomerDetails is the final
\* customer_details.customer_phone, whatever the later passes find.
C7_FirstWriterWins ==
  \A p \in Procs :
    (Finished(p) /\ run[p].result.success /\ run[p].seen.firstPhone # None) =>
      run[p].result.customer_details.customer_phone = run[p].seen.firstPhone

\* A link that yields no usable group-order UUID: missing, malformed or the
\* placeholder.
NoUuid(link) == extractGroupUuid(link) \in {None, Placeholder}
UrlErrors ==
  {"URL is required", "Please provide a real Uber Eats group order link"}

\* C8: for a request whose URL yields no group-order UUID, no network request
\* is issued (no login refresh, no auth probe, no join, no checkout) and the
\* URL is not rejected by an exception.
C8_NoRequestForBadLink ==
  \A p \in Procs :
    (ctl[p].active /\ NoUuid(ctl[p].url)) =>
      /\ net[p].sent = <<>>
      /\ ~(ctl[p].thrown /\ ctl[p].thrownMessage \in UrlErrors)

\* The place of a request in the order of a run.
Stage(req) ==
  CASE req = "login" -> 0
    [] req = "join" -> 1
    [] req = "checkout" -> 2
    [] req = "store" -> 3
    [] req = "html" -> 4
    [] req = "geocode" -> 5
    [] OTHER -> 6
Issued(p, req) == \E i \in 1 .. Len(net[p].sent) : net[p].sent[i] = req
InOrder(s) ==
  \A i \in 1 .. Len(s), j \in 1 .. Len(s) :
    i < j => \/ Stage(s[i]) < Stage(s[j])
             \/ s[i] = "html" /\ s[j] = "html"

\* C9: the requests of one run are issued in the order join, checkout, store,
\* HTML fallback, geocode; checkout only after a join answered 200, store only
\* after a checkout answered 200 without a failure status; never two of them
\* in flight together.
C9_Sequential ==
  \A p \in Procs :
    /\ Len(net[p].inflight) <= 1
    /\ InOrder(net[p].sent)
    /\ Issued(p, "checkout") => run[p].seen.join = HttpOk
    /\ Issued(p, "store") =>
         run[p].seen.checkout = HttpOk /\ run[p].seen.bodyStatus # "failure"
    /\ (Issued(p, "html") \/ Issued(p, "geocode")) =>
         /\ run[p].seen.reconciled
         /\ pc[p] # "store"
\* C9 witness: a run that issued all five kinds of request has ended.
C9_Witness ==
  \E p \in Procs :
    /\ Finished(p)
    /\ net[p].sent = <<"join", "checkout", "store", "html", "geocode">>

\* C10: a checkout answered 200 with the body status 'failure' ends in
\* success=false, the provider's message in the error, zero money fields and
\* no items, with no reconciliation and no store, HTML or geocode request.
C10_ProviderFailure ==
  \A p \in Procs :
    (run[p].seen.checkout = HttpOk /\ run[p].seen.bodyStatus = "failure") =>
      /\ Finished(p)
      /\ ~run[p].result.success
      /\ run[p].result.error.present
      /\ run[p].result.error.text = "Uber Eats API error: "
      /\ run[p].seen.message # None =>
           run[p].result.error.detail = run[p].seen.message
      /\ Zeroed(run[p].result)
      /\ ~run[p].seen.reconciled
      /\ \A req \in {"store", "html", "geocode"} : ~Issued(p, req)
\* C10 witness: the provider answered the checkout with status 'failure' and
\* the message "Cart is closed".
C10_Witness ==
  \E p \in Procs :
    /\ Finished(p)
    /\ run[p].seen.checkout = HttpOk
    /\ run[p].seen.bodyStatus = "failure"
    /\ run[p].result.error.detail = "Cart is closed"

\* The delivery data a run holds: its locals while it runs, the fields of its
\* result once it has returned.
Delivery(p) ==
  IF run[p].returned
  THEN <<run[p].result.delivery_address, run[p].result.delivery_instructions,
         run[p].result.customer_details.customer_phone>>
  ELSE <<run[p].deliveryAddress, run[p].deliveryInstructions,
         run[p].customerDetails.customer_phone>>
\* The step of p met one more failed HTML or geocode fetch.
EnrichmentFailedNow(p) ==
  /\ run[p].seen.failed \subseteq run'[p].seen.failed
  /\ run[p].seen.failed # run'[p].seen.failed

\* C11: a failed HTML fetch or geocode lookup never changes the outcome: the
\* run still ends in success=true, and the step that met the failure leaves
\* delivery address, coordinates, instructions and phone as they were.
C11_EnrichmentFailureHarmless ==
  /\ [](\A p \in Procs :
          (Finished(p) /\ run[p].seen.failed # {}) => run[p].result.success)
  /\ [][\A p \in Procs :
          EnrichmentFailedNow(p) =>
            /\ ~run'[p].thrown
            /\ Delivery(p)' = Delivery(p)
            /\ ~run'[p].returned => run'[p].deliveryCoords = run[p].deliveryCoords]_vars
\* C11 witness: a run whose HTML fetch and whose geocode lookup both failed
\* has returned success=true.
C11_Witness ==
  \E p \in Procs :
    /\ Finished(p)
    /\ {"html1", "geocode"} \subseteq run[p].seen.failed
    /\ run[p].result.success

\* expiresAt is set and less than five minutes ahead of now.
ExpiredNow == SID_EXPIRY_TIME # NoTime /\ SID_EXPIRY_TIME - now < FiveMinutes
\* The call of p leaves ensureValidSid's entry without a request and returns
\* the token held.
ReturnsHeld(p) ==
  /\ pc'[p] = "ensured"
  /\ net'[p] = net[p]
  /\ ens'[p].ret = UBER_SID
  /\ UBER_SID' = UBER_SID

\* C12: ensureValidSid sends a login-page request only when a token is set
\* and expired; with no token it returns the empty token without a request
\* even when expiresAt is in the past, with an unexpired token it sends none,
\* and one call never sends more than one.
C12_RefreshOnlyWhenExpired ==
  /\ [](\A p \in Procs :
          /\ ens[p].logins <= 1
          /\ Len(SelectSeq(net[p].sent, LAMBDA req : req = "login")) = ens[p].logins)
  /\ [][\A p \in Procs :
          (pc[p] = "ensure" /\ pc'[p] # "ensure") =>
            /\ net'[p] # net[p] => UBER_SID # "" /\ ExpiredNow
            /\ UBER_SID = "" => ReturnsHeld(p)
            /\ (UBER_SID # "" /\ ~ExpiredNow) => ReturnsHeld(p)]_vars
\* C12 witness: with no token and expiresAt in the past a call has returned
\* the empty token without a login-page request.
C12_Witness ==
  \E p \in Procs :
    /\ pc[p] = "ensured"
    /\ UBER_SID = ""
    /\ ExpiredNow
    /\ ens[p].ret = ""
    /\ ens[p].logins = 0
    /\ net[p].sent = <<>>

\* C13: a failed auto-refresh (request error, timeout, or no session cookie
\* in the answer) leaves the in-memory token, expiresAt and the persisted
\* record unchanged; ensureValidSid then returns normally with the token
\* held, which is the token held before the failure unless another caller
\* replaced it meanwhile.
C13_FailedRefreshKeepsCredential ==
  [][\A p \in Procs :
       /\ (pc[p] = "refreshing" /\ pc'[p] # "refreshing" /\ ens'[p].failed) =>
            /\ UBER_SID' = UBER_SID
            /\ SID_EXPIRY_TIME' = SID_EXPIRY_TIME
            /\ sidFile' = sidFile
            /\ ens'[p].held = UBER_SID
            /\ pc'[p] = "ensureResume"
       /\ (pc[p] = "ensureResume" /\ pc'[p] # "ensureResume" /\ ens[p].failed) =>
            /\ pc'[p] = "ensured"
            /\ ens'[p].ret = UBER_SID
            /\ UBER_SID = ens[p].held => ens'[p].ret = ens[p].held]_vars
\* C13 witness: a call whose refresh failed has returned the token it held,
\* an expired one, with the persisted record still holding it.
C13_Witness ==
  \E p \in Procs :
    /\ pc[p] = "ensured"
    /\ ens[p].failed
    /\ ens[p].ret = ens[p].held
    /\ ens[p].ret = UBER_SID
    /\ ExpiredNow
    /\ sidFile.present /\ sidFile.sid = UBER_SID

\* The in-memory credential as a record of the persistence file.
Persisted(sid, exp) == [present |-> TRUE, sid |-> sid, expiryTime |-> exp]
\* A step that is an explicit updateSid: no caller moves, time stands still,
\* and the credential or the file changes.
UpdateStep ==
  /\ pc' = pc
  /\ now' = now
  /\ <<UBER_SID, SID_EXPIRY_TIME, sidFile>>' # <<UBER_SID, SID_EXPIRY_TIME, sidFile>>
\* A step in which the auto-refresh of p got a new token.
RefreshedStep(p) ==
  pc[p] = "refreshing" /\ pc'[p] # "refreshing" /\ ~ens'[p].failed
\* The credential after a mutation: a token of the callers', expiresAt twenty
\* hours ahead, and a file that holds the same two values or, when the write
\* failed, what it held before.
Mutated ==
  /\ UBER_SID' \in Sids
  /\ SID_EXPIRY_TIME' = now + TwentyHours
  /\ \/ sidFile' = Persisted(UBER_SID', SID_EXPIRY_TIME')
     \/ sidFile' = sidFile

\* C14: updateSid sets the token to the new one and expiresAt to now + 20
\* hours and writes those two values to the file; after an update or a
\* successful auto-refresh whose write went through the file equals the
\* in-memory credential, and when the write fails the in-memory token and
\* expiry are the new ones all the same.
C14_UpdatePersists ==
  [][/\ UpdateStep => Mutated
     /\ \A p \in Procs : RefreshedStep(p) => Mutated]_vars
\* C14 witness: after an update at a later time the file holds the token
\* and the expiry that are in memory.
C14_Witness ==
  /\ now > 0
  /\ UBER_SID = "sidB"
  /\ SID_EXPIRY_TIME = now + TwentyHours
  /\ sidFile = Persisted(UBER_SID, SID_EXPIRY_TIME)

\* C15: isSidExpired is false when expiresAt is null and otherwise true
\* exactly when expiresAt - now is less than five minutes (four minutes
\* ahead: true, six minutes ahead: false); a call of ensureValidSid with a
\* token set goes on without a refresh exactly when it is false.
C15_ExpiryTest ==
  /\ [](/\ isSidExpired(SID_EXPIRY_TIME, now) =
             (SID_EXPIRY_TIME # NoTime /\ SID_EXPIRY_TIME - now < FiveMinutes)
        /\ ~isSidExpired(NoTime, now)
        /\ isSidExpired(now + 4, now)
        /\ ~isSidExpired(now + 5, now)
        /\ ~isSidExpired(now + 6, now))
  /\ [][\A p \in Procs :
          (pc[p] = "ensure" /\ pc'[p] # "ensure" /\ UBER_SID # "") =>
            ((pc'[p] = "ensured") = ~ExpiredNow)]_vars
\* C15 witness: with expiresAt four minutes ahead a call found the token
\* expired and sent the login-page request.
C15_Witness ==
  \E p \in Procs :
    /\ pc[p] = "refreshing"
    /\ SID_EXPIRY_TIME = now + 4
    /\ ens[p].logins = 1

\* Two entries are deep-equal: the same keys with the same values, in whatever
\* order the keys come.
DeepEqual(a, b) == Entries(a) = Entries(b)
\* The favorite-restaurant list of the result p's call returned.
Favorites(p) == run[p].result.customer_details.customer_favorite_restaurants

\* C16: in a successful result no list field of customer_details holds two
\* deep-equal entries.
C16_NoDeepEqualEntries ==
  \A p \in Procs :
    (Finished(p) /\ run[p].result.success) =>
      \A i, j \in 1 .. Len(Favorites(p)) :
        i # j => ~DeepEqual(Favorites(p)[i], Favorites(p)[j])

\* C17: in a successful result every entry one of the four extraction passes
\* found is in the final list.
C17_ListIsUnionOfPasses ==
  \A p \in Procs :
    (Finished(p) /\ run[p].result.success) =>
      run[p].seen.found \subseteq Entries(Favorites(p))

\* The charges the reconciler of p's call went through.
ChargesOf(p) ==
  IF Len(run[p].seen.payloads.charges) > 0 THEN run[p].seen.payloads.charges
  ELSE run[p].seen.payloads.altCharges
\* The title a charge carries, in lower case: its title, whether a plain
\* string or an object with a text, else its name.
TitleOf(c) == toLowerCase(IF c.title.shape # "none" THEN c.title.text ELSE c.name)
\* A charge with a negative amount, with and without a benefit keyword in
\* its title.
Negative(c) == getAmount(c).finite /\ getAmount(c).v < 0
IsBenefit(c) == Negative(c) /\ someIncluded(TitleOf(c), BenefitKw)
\* The sum of the magnitudes of the benefit charges among the first n.
RECURSIVE benefitSum(_, _)
benefitSum(charges, n) ==
  IF n = 0 THEN 0
  ELSE benefitSum(charges, n - 1)
         + (IF IsBenefit(charges[n]) THEN 0 - getAmount(charges[n]).v ELSE 0)
\* The money a result reports outside the loyalty benefit and the total.
Categories(res) ==
  <<res.subtotal, res.taxes, res.fees, res.delivery_fee, res.service_fee, res.tip,
    res.small_order_fee, res.adjustments_fee, res.pickup_fee, res.other_fees>>
\* The same payloads without the negative charges.
WithoutNegative(payloads) ==
  [payloads EXCEPT
     !.charges = SelectSeq(@, LAMBDA c : ~Negative(c)),
     !.altCharges = SelectSeq(@, LAMBDA c : ~Negative(c))]
CategoriesOf(b) ==
  <<b.subtotal, b.taxes, b.fees, b.deliveryFee, b.serviceFee, b.tip,
    b.smallOrderFee, b.adjustmentsFee, b.pickupFee, b.otherFees>>

\* C18: the negative charges whose title contains a benefit keyword add their
\* magnitudes to the loyalty benefit and set the loyalty flag; no negative
\* charge adds to the subtotal, the taxes or a fee category; without a benefit
\* charge the flag is not set.
C18_NegativeCharges ==
  \A p \in Procs :
    (Finished(p) /\ run[p].result.success /\ Len(ChargesOf(p)) > 0) =>
      LET cs == ChargesOf(p)
          res == run[p].result
      IN /\ (\E i \in 1 .. Len(cs) : IsBenefit(cs[i])) =>
              /\ res.has_uber_one
              /\ res.uber_one_benefit = benefitSum(cs, Len(cs))
         /\ (\A i \in 1 .. Len(cs) : ~IsBenefit(cs[i])) => ~res.has_uber_one
         /\ Categories(res) =
              CategoriesOf(extractSubtotalAndFeesFromCheckoutPayloads(
                             WithoutNegative(run[p].seen.payloads)))

\* The total of the checkout payloads p's call read: none supplied, and the
\* value supplied, the analytics-info field before the plain field.
TotalField(p) == run[p].seen.payloads.total
NoTotalSupplied(t) == t.analytics.shape = "none" /\ ~t.hasPlain
Supplied(t) == IF t.analytics.shape # "none" THEN t.analytics.low ELSE t.plain.low
\* The same, a field of zero counting as no field.
SuppliedNonZero(t) ==
  IF t.analytics.low # 0 THEN t.analytics.low
  ELSE IF t.hasPlain THEN t.plain.low ELSE 0
\* subtotal + fees + taxes of a result.
Computed(res) == res.subtotal + res.fees + res.taxes

PlainLine(c, title) ==
  /\ c.title = TitleStr(title)
  /\ c.amount.isNum
  /\ ~Truthy(c.analytics)
  /\ ~Truthy(c.amountE5)

\* C20: for charges with plain string titles and plain numeric amounts, a
\* Subtotal, a Delivery Fee and a Tax line, and no total in the payload, the
\* result has the three amounts as subtotal, delivery_fee and taxes and their
\* sum as total (18.00, 3.99 and 1.44 give 23.43).
C20_PlainCharges ==
  \A p \in Procs :
    LET cs == ChargesOf(p)
        res == run[p].result
    IN (/\ Finished(p)
        /\ res.success
        /\ Len(cs) = 3
        /\ PlainLine(cs[1], T_Subtotal)
        /\ PlainLine(cs[2], T_DeliveryFee)
        /\ PlainLine(cs[3], T_Tax)
        /\ NoTotalSupplied(TotalField(p))) =>
         /\ res.subtotal = cs[1].amount.v
         /\ res.delivery_fee = cs[2].amount.v
         /\ res.taxes = cs[3].amount.v
         /\ res.total = cs[1].amount.v + cs[2].amount.v + cs[3].amount.v

\* The sum of the non-negative finite amounts among the first n charges.
RECURSIVE nonNegativeSum(_, _)
nonNegativeSum(charges, n) ==
  IF n = 0 THEN 0
  ELSE nonNegativeSum(charges, n - 1)
         + (IF getAmount(charges[n]).finite /\ getAmount(charges[n]).v >= 0
            THEN getAmount(charges[n]).v ELSE 0)

\* C21: no charge with a non-negative finite amount is dropped or counted
\* twice: when the charge loop ends, subtotal + taxes + the seven fee
\* sub-categories is the sum of the non-negative amounts.
C21_EveryChargeCounted ==
  \A p \in Procs :
    (Finished(p) /\ run[p].result.success) =>
      LET b == run[p].seen.classified
      IN b.subtotal + b.taxes + feeSum(b)
           = nonNegativeSum(ChargesOf(p), Len(ChargesOf(p)))

\* The seven fee sub-categories of a result and of a breakdown.
SubCategories(res) ==
  <<res.delivery_fee, res.service_fee, res.tip, res.small_order_fee,
    res.adjustments_fee, res.pickup_fee, res.other_fees>>
SubCategoriesOf(b) ==
  <<b.deliveryFee, b.serviceFee, b.tip, b.smallOrderFee, b.adjustmentsFee,
    b.pickupFee, b.otherFees>>
\* After classification the sub-categories are all zero, total and subtotal
\* are known and total - subtotal - taxes is positive.
BackComputes(p) ==
  LET c == run[p].seen.classified
      t == SuppliedNonZero(TotalField(p))
  IN feeSum(c) = 0 /\ t > 0 /\ c.subtotal > 0 /\ t - c.subtotal - c.taxes > 0
\* The sub-categories are still all zero after that step and the subtotal is
\* positive.
Estimates(p) ==
  feeSum(run[p].seen.classified) = 0 /\ ~BackComputes(p)
    /\ run[p].seen.classified.subtotal > 0
\* 12% of an amount, rounded to cents.
TwelvePercent(x) == ((x * 12 + 50000) \div 100000) * 1000

SubCategorySum(res) ==
  res.delivery_fee + res.service_fee + res.tip + res.small_order_fee
    + res.adjustments_fee + res.pickup_fee + res.other_fees
\* An amount rounded to 2 decimals (1000 units are one cent), halves up.
Round2(x) == ((x + 500) \div 1000) * 1000

\* C23: fees is the sum of the seven fee sub-categories rounded to 2 decimals;
\* only when that is zero and total and subtotal are both known may fees be
\* total - subtotal - taxes instead, if positive.
C23_FeesAreSum ==
  \A p \in Procs :
    (Finished(p) /\ run[p].result.success) =>
      LET res == run[p].result
          t == SuppliedNonZero(TotalField(p))
      IN \/ res.fees = Round2(SubCategorySum(res))
         \/ /\ Round2(SubCategorySum(res)) = 0
            /\ t # 0
            /\ res.subtotal # 0
            /\ res.fees = Round2(t - res.subtotal - res.taxes)
            /\ res.fees > 0
\* A call returned fees rounded from a sum that is not a whole number of
\* cents.
C23_Witness ==
  \E p \in Procs :
    /\ Finished(p)
    /\ run[p].result.success
    /\ SubCategorySum(run[p].result) % 1000 # 0
    /\ run[p].result.fees = Round2(SubCategorySum(run[p].result))
    /\ run[p].result.fees > 0

\* The monetary fields of a result.
MoneyFields ==
  {"subtotal", "taxes", "fees", "delivery_fee", "service_fee", "tip",
   "small_order_fee", "adjustments_fee", "pickup_fee", "other_fees",
   "uber_one_benefit", "total"}

\* C28: every monetary field of a successful result has at most 2 decimal
\* places (is a whole number of cents).
C28_TwoDecimals ==
  \A p \in Procs :
    (Finished(p) /\ run[p].result.success) =>
      \A f \in MoneyFields : run[p].result[f] % 1000 = 0

\* C27: no extractor throws: a run whose join and checkout answers have
\* status 200, whose checkout body does not report a failure and whose store
\* request did not fail returns a success, whatever the shape of the fields
\* of the two bodies.
C27_ExtractorsNeverThrow ==
  \A p \in Procs :
    (/\ Finished(p)
     /\ run[p].seen.join = HttpOk
     /\ run[p].seen.checkout = HttpOk
     /\ run[p].seen.bodyStatus # "failure"
     /\ ~run[p].seen.storeFailed) =>
      run[p].result.success

\* C24: the refresh-in-progress flag is true only while a refresh is
\* executing; the step that ends an attempt clears it, whether the attempt
\* succeeded, found no cookie or failed; and a call of ensureValidSid that
\* finds the token still expired when no refresh is executing starts one.
C24_FlagCleared ==
  /\ [](SID_REFRESH_IN_PROGRESS => Refreshing # {})
  /\ [][\A p \in Procs :
          /\ (pc[p] = "refreshing" /\ pc'[p] # "refreshing") =>
                ~SID_REFRESH_IN_PROGRESS'
          /\ (/\ pc[p] = "ensure" /\ pc'[p] # "ensure"
              /\ UBER_SID # "" /\ ExpiredNow /\ Refreshing = {}) =>
                pc'[p] = "refreshing"]_vars
\* C24 witness: after one caller's attempt failed, another caller's refresh
\* is executing.
C24_Witness ==
  \E p \in Procs, q \in Procs :
    /\ p # q
    /\ ens[q].failed
    /\ pc[q] # "refreshing"
    /\ pc[p] = "refreshing"
    /\ SID_REFRESH_IN_PROGRESS


\* C25: a scrape request that supplies its own token (20 characters or more)
\* sends its join, checkout, store and HTML requests with that token, also
\* when other requests supplying other tokens run between its updateSid and
\* the creation of its HTTP session.
SuppliesSid(p) ==
  ctl[p].active /\ ctl[p].sid # None /\ length(ctl[p].sid) >= 20
SessionCreated(p) ==
  run[p].caller = "scrape" /\ \E i \in 1 .. Len(net[p].sent) : net[p].sent[i] = "join"
C25_OwnSidUsed ==
  \A p \in Procs :
    SuppliesSid(p) /\ SessionCreated(p) => run[p].sessionSid = ctl[p].sid

\* C26: a user has at most one Order document per cart URL, also when two
\* requests for the same user and URL run at once.
C26_OneOrderPerUrl ==
  \A url \in Links : Cardinality(matching(orders, url)) <= 1

\* C29: every tree search stops at a depth cap of 8 to 10 levels, so a key
\* that sits below the cap is not matched: no entry of a list held only
\* deeper than the cap is in the result's list.
C29_NothingBelowCap ==
  \A p \in Procs :
    (Finished(p) /\ run[p].result.success) =>
      run[p].seen.belowCap \cap Entries(Favorites(p)) = {}

\* The quantity the encoding of a field stands for: coefficient times ten to
\* the exponent, the quantity of a field with only that key, the number of a
\* plain number, 1 for a missing or malformed field.
Malformed(f) ==
  \/ f.type \in {"undefined", "string"}
  \/ f.type = "object" /\ ~f.quantity.isNum
       /\ ~(f.hasValue /\ f.coefficient.shape # "none")
QuantityOf(f) ==
  IF Malformed(f) THEN Dec(1, 0)
  ELSE IF f.type = "number" THEN Dec(f.n, 0)
  ELSE IF ~f.hasValue THEN Dec(f.quantity.v, 0)
  ELSE IF f.exponent.v < 0 THEN Quotient(f.coefficient.low, 0 - f.exponent.v)
  ELSE Dec(f.coefficient.low * Pow10(f.exponent.v), 0)
\* The fields the statement is about: those with both a coefficient and an
\* exponent, and those without a coefficient.
Stated(f) == (f.hasValue /\ f.coefficient.shape # "none") => f.exponent.isNum

\* C30: the quantity of every item of a result is coefficient x 10^exponent
\* of its field, whole or fractional; the quantity of a field with only that
\* key; the number of a plain number; 1 for a missing or malformed field.
C30_QuantityIsCoefficientTimesPower ==
  \A p \in Procs :
    (Finished(p) /\ run[p].result.success) =>
      \A i \in 1 .. Len(run[p].result.items) :
        Stated(run[p].seen.payloads.cartItems[i].quantity) =>
          run[p].result.items[i].quantity =
            QuantityOf(run[p].seen.payloads.cartItems[i].quantity)

====
